---- MODULE Spec2Model ----
(***************************************************************************)
(* A model of the backend generator: the naming functions, the type        *)
(* mappers and the connection-string normalization of utils.py, the schema *)
(* reader of database_reader.py, the code generator of code_generator.py   *)
(* and, of app.py, the call it makes to it and the grouping page.          *)
(*                                                                         *)
(* Strings are sequences of one-character strings, so that the naming      *)
(* functions are computed character by character as the regular            *)
(* expressions of the source compute them.                                 *)
(***************************************************************************)
EXTENDS Integers, Sequences, FiniteSets, TLC

VARIABLES
    \* ---- naming functions (utils.py) ----
    text,        \* the identifier handed to the naming functions
    acc,         \* the value after the functions applied so far
    applied,     \* the functions applied so far, in order
    \* ---- DatabaseSchemaReader (database_reader.py) ----
    db,            \* the catalog of the database the reader is pointed at
    rpc,           \* where read_schema stands; "idle" when the caller has control
    self_conn,     \* self.conn: 0 is None, otherwise the id of a connection object
    self_cursor,   \* self.cursor: 0 is None, otherwise the id of a cursor object
    open_conns,    \* the connection objects that are open
    open_cursors,  \* the cursor objects that are open
    n_conns,       \* the number of connection objects created so far
    n_cursors,     \* the number of cursor objects created so far
    tables,        \* read_schema's local: the rows of the table list
    tidx,          \* the index of the table the loop of read_schema is at
    columns,       \* _get_table_info's local
    primary_keys,  \* _get_table_info's local
    foreign_keys,  \* _get_table_info's local
    schema_data,   \* read_schema's local: the tables read so far
    exc,           \* whether an exception is propagating
    result,        \* what the caller received: <<>> or <<the schema>>
    outcome,       \* how the last call ended: "none", "running", "returned", "raised"
    calls,         \* the number of read_schema calls made
    queries,       \* the queries issued, in order: <<connection, kind, table index>>
    \* ---- DotNetCodeGenerator.generate_application (code_generator.py) ----
    schema,             \* the argument schema['tables']
    connection_string,  \* the argument connection_string
    progress_callback,  \* whether a progress callback is supplied
    table_groups,       \* the group mapping the caller holds for this run (app.py)
    files,              \* the dict files
    gidx,               \* idx of the loop over schema['tables']
    gpc,                \* where generate_application stands; "idle" outside a run
    progress,           \* the reports the callback received: [percent, nfiles]
    steps,              \* the statement groups the run has executed, in order
    gen_result,         \* what the caller received: <<>> or <<the map>>
    ref,                \* an earlier completed run, kept to compare later runs with
    \* ---- DotNetCodeGenerator._prepare_table_data on its own ----
    table,              \* the table handed to _prepare_table_data
    table_data,         \* <<>> before the call, <<the returned view>> after
    \* ---- the type mappers (utils.py) ----
    pg_type,            \* the argument postgres_type
    nullable,           \* the argument is_nullable
    mapped,             \* per mapper: <<>> before its call, <<its result>> after
    \* ---- normalize_connection_string (utils.py) ----
    dsn,                \* the connection string handed in first
    target,             \* the argument target_framework
    normalized,         \* the results of the calls so far, each fed to the next
    \* ---- the grouping page of main (app.py) ----
    ui_schema,             \* schema['tables'] as the page shows it
    session_table_groups,  \* st.session_state.table_groups, in insertion order
    selected_tables,       \* st.session_state.selected_tables
    all_groups             \* the local all_groups of a generating run: <<>> or <<it>>

namingVars == <<text, acc, applied>>
readerVars == <<db, rpc, self_conn, self_cursor, open_conns, open_cursors, n_conns,
                n_cursors, tables, tidx, columns, primary_keys, foreign_keys,
                schema_data, exc, result, outcome, calls, queries>>
genVars == <<schema, connection_string, progress_callback, table_groups, files, gidx, gpc,
             progress, steps, gen_result, ref>>
viewVars == <<table, table_data>>
typeVars == <<pg_type, nullable, mapped>>
connVars == <<dsn, target, normalized>>
uiVars == <<ui_schema, session_table_groups, selected_tables, all_groups>>
vars == <<namingVars, readerVars, genVars, viewVars, typeVars, connVars, uiVars>>
notNaming == <<readerVars, genVars, viewVars, typeVars, connVars, uiVars>>
notReader == <<namingVars, genVars, viewVars, typeVars, connVars, uiVars>>
notGen == <<namingVars, readerVars, viewVars, typeVars, connVars, uiVars>>
notView == <<namingVars, readerVars, genVars, typeVars, connVars, uiVars>>
notType == <<namingVars, readerVars, genVars, viewVars, connVars, uiVars>>
notConn == <<namingVars, readerVars, genVars, viewVars, typeVars, uiVars>>
notUi == <<namingVars, readerVars, genVars, viewVars, typeVars, connVars>>

(***************************************************************************)
(* Bounds                                                                  *)
(***************************************************************************)
MaxLen == 3

(***************************************************************************)
(* Characters                                                              *)
(***************************************************************************)
LowerAlphabet == <<"a", "b", "c", "d", "e", "f", "g", "h", "i", "j", "k", "l", "m",
                   "n", "o", "p", "q", "r", "s", "t", "u", "v", "w", "x", "y", "z">>
UpperAlphabet == <<"A", "B", "C", "D", "E", "F", "G", "H", "I", "J", "K", "L", "M",
                   "N", "O", "P", "Q", "R", "S", "T", "U", "V", "W", "X", "Y", "Z">>
DigitChars == {"0", "1", "2", "3", "4", "5", "6", "7", "8", "9"}
\* the characters of the class [_\-\s]
SepChars == {"_", "-", " "}

\* the characters the bounded identifiers are drawn from
Chars == {"a", "b", "A", "B", "1", "_", "-", " "}

IsUpper(c) == \E i \in 1..Len(UpperAlphabet) : UpperAlphabet[i] = c
IsLower(c) == \E i \in 1..Len(LowerAlphabet) : LowerAlphabet[i] = c
IsDigit(c) == c \in DigitChars
IsSpace(c) == c = " "

\* str.upper() and str.lower() on one character
UpperOf(c) ==
    IF IsLower(c)
    THEN UpperAlphabet[CHOOSE i \in 1..Len(LowerAlphabet) : LowerAlphabet[i] = c]
    ELSE c
LowerOf(c) ==
    IF IsUpper(c)
    THEN LowerAlphabet[CHOOSE i \in 1..Len(UpperAlphabet) : UpperAlphabet[i] = c]
    ELSE c

\* str.lower() on a string
Lowered(s) == [i \in 1..Len(s) |-> LowerOf(s[i])]

RECURSIVE Flatten(_)
Flatten(ss) == IF ss = <<>> THEN <<>> ELSE Head(ss) \o Flatten(Tail(ss))

(***************************************************************************)
(* pascal_case: re.sub(r'[_\-\s]+', ' ', text).split(), then               *)
(* ''.join(word.capitalize() for word in words)                            *)
(***************************************************************************)
\* re.sub(r'[_\-\s]+', ' ', text): every maximal run of separators becomes one space
RECURSIVE SubSeparators(_)
SubSeparators(s) ==
    IF s = <<>> THEN <<>>
    ELSE IF Head(s) \in SepChars
         THEN IF Len(s) > 1 /\ s[2] \in SepChars
              THEN SubSeparators(Tail(s))
              ELSE <<" ">> \o SubSeparators(Tail(s))
         ELSE <<Head(s)>> \o SubSeparators(Tail(s))

\* str.split(): the maximal runs of non-whitespace characters
RECURSIVE SplitWords(_, _)
SplitWords(s, cur) ==
    IF s = <<>> THEN (IF cur = <<>> THEN <<>> ELSE <<cur>>)
    ELSE IF IsSpace(Head(s))
         THEN (IF cur = <<>> THEN <<>> ELSE <<cur>>) \o SplitWords(Tail(s), <<>>)
         ELSE SplitWords(Tail(s), Append(cur, Head(s)))

\* str.capitalize(): the first character upper-cased, the others lower-cased
Capitalize(w) ==
    IF w = <<>> THEN <<>> ELSE <<UpperOf(Head(w))>> \o Lowered(Tail(w))

pascal_case(s) ==
    LET words == SplitWords(SubSeparators(s), <<>>)
    IN  Flatten([i \in 1..Len(words) |-> Capitalize(words[i])])

(***************************************************************************)
(* snake_case: s1 = re.sub('(.)([A-Z][a-z]+)', r'\1_\2', text), then       *)
(* re.sub('([a-z0-9])([A-Z])', r'\1_\2', s1).lower()                       *)
(***************************************************************************)
\* the last index of the run of lower-case letters that starts at index i
RECURSIVE LowerRunEnd(_, _)
LowerRunEnd(s, i) ==
    IF i < Len(s) /\ IsLower(s[i + 1]) THEN LowerRunEnd(s, i + 1) ELSE i

\* first pass: leftmost non-overlapping matches of (.)([A-Z][a-z]+), scanned from i
RECURSIVE SubWordBoundary(_, _)
SubWordBoundary(s, i) ==
    IF i > Len(s) THEN <<>>
    ELSE IF i + 2 <= Len(s) /\ IsUpper(s[i + 1]) /\ IsLower(s[i + 2])
         THEN LET j == LowerRunEnd(s, i + 2)
              IN  <<s[i], "_">> \o SubSeq(s, i + 1, j) \o SubWordBoundary(s, j + 1)
         ELSE <<s[i]>> \o SubWordBoundary(s, i + 1)

\* second pass: leftmost non-overlapping matches of ([a-z0-9])([A-Z]), scanned from i
RECURSIVE SubLowerUpper(_, _)
SubLowerUpper(s, i) ==
    IF i > Len(s) THEN <<>>
    ELSE IF i + 1 <= Len(s) /\ (IsLower(s[i]) \/ IsDigit(s[i])) /\ IsUpper(s[i + 1])
         THEN <<s[i], "_", s[i + 1]>> \o SubLowerUpper(s, i + 2)
         ELSE <<s[i]>> \o SubLowerUpper(s, i + 1)

snake_case(s) == Lowered(SubLowerUpper(SubWordBoundary(s, 1), 1))

(***************************************************************************)
(* camel_case: pascal[0].lower() + pascal[1:] if pascal else ''            *)
(***************************************************************************)
camel_case(s) ==
    LET pascal == pascal_case(s)
    IN  IF pascal # <<>> THEN <<LowerOf(pascal[1])>> \o Tail(pascal) ELSE <<>>

(***************************************************************************)
(* Values shared by the reader and the generator                           *)
(***************************************************************************)
\* Python's None, where the other values are records
None == [is_none |-> TRUE]

\* an optional scalar is <<>> (None, SQL NULL) or <<v>>; a number is its numeral
\* Python's truth value of an optional number: neither None nor 0
Some(v) == <<v>>
Truthy(opt) == opt # <<>> /\ opt[1] # <<"0">>

(***************************************************************************)
(* The catalog of a database: what the metadata queries answer             *)
(***************************************************************************)
\* a row of information_schema.columns, as _get_columns selects it
ColumnRow(name, data_type, is_nullable, max_len, precision, scale) ==
    [column_name |-> name, data_type |-> data_type, is_nullable |-> is_nullable,
     column_default |-> <<>>, character_maximum_length |-> max_len,
     numeric_precision |-> precision, numeric_scale |-> scale]

ForeignKeyRow(column, ref_schema, ref_table, ref_column) ==
    <<column, ref_schema, ref_table, ref_column>>

T_integer == <<"i", "n", "t", "e", "g", "e", "r">>
T_character_varying == <<"c", "h", "a", "r", "a", "c", "t", "e", "r", " ", "v", "a", "r", "y", "i", "n", "g">>
T_text == <<"t", "e", "x", "t">>
T_numeric == <<"n", "u", "m", "e", "r", "i", "c">>
T_varchar == <<"v", "a", "r", "c", "h", "a", "r">>

N_id == <<"i", "d">>
N_email == <<"e", "m", "a", "i", "l">>
N_users == <<"u", "s", "e", "r", "s">>
N_user_id == <<"u", "s", "e", "r", "_", "i", "d">>
N_order_items == <<"o", "r", "d", "e", "r", "_", "i", "t", "e", "m", "s">>
N_order_id == <<"o", "r", "d", "e", "r", "_", "i", "d">>
N_item_no == <<"i", "t", "e", "m", "_", "n", "o">>

\* public.users(id integer primary key, email varchar(255) not null)
CatUsers ==
    [table_schema |-> "public", table_name |-> N_users,
     columns |-> << ColumnRow(N_id, T_integer, "NO", <<>>, Some(<<"3", "2">>), Some(<<"0">>)),
                    ColumnRow(N_email, T_character_varying, "NO", Some(<<"2", "5", "5">>),
                              <<>>, <<>>) >>,
     primary_keys |-> << N_id >>,
     foreign_keys |-> << >>]

\* audit.users(user_id integer null references public.users(id)), no primary key
CatAuditUsers ==
    [table_schema |-> "audit", table_name |-> N_users,
     columns |-> << ColumnRow(N_user_id, T_integer, "YES", <<>>, Some(<<"3", "2">>),
                              Some(<<"0">>)) >>,
     primary_keys |-> << >>,
     foreign_keys |-> << ForeignKeyRow(N_user_id, "public", N_users, N_id) >>]

\* public.order_items(order_id integer, item_no integer, primary key (order_id, item_no))
CatOrderItems ==
    [table_schema |-> "public", table_name |-> N_order_items,
     columns |-> << ColumnRow(N_order_id, T_integer, "NO", <<>>, Some(<<"3", "2">>), Some(<<"0">>)),
                    ColumnRow(N_item_no, T_integer, "NO", <<>>, Some(<<"3", "2">>), Some(<<"0">>)) >>,
     primary_keys |-> << N_order_id, N_item_no >>,
     foreign_keys |-> << >>]

SampleCatalogTables == {CatUsers, CatAuditUsers, CatOrderItems}

\* public.products(code character(10) primary key, price numeric(10,0)), where
\* code references users(email) and, by a second constraint, order_items(item_no)
T_character == <<"c", "h", "a", "r", "a", "c", "t", "e", "r">>
CatProducts ==
    [table_schema |-> "public", table_name |-> <<"p", "r", "o", "d", "u", "c", "t", "s">>,
     columns |-> << ColumnRow(<<"c", "o", "d", "e">>, T_character, "NO", Some(<<"1", "0">>), <<>>, <<>>),
                    ColumnRow(<<"p", "r", "i", "c", "e">>, T_numeric, "YES", <<>>, Some(<<"1", "0">>),
                              Some(<<"0">>)) >>,
     primary_keys |-> << <<"c", "o", "d", "e">> >>,
     foreign_keys |-> << ForeignKeyRow(<<"c", "o", "d", "e">>, "public", N_users, N_email),
                         ForeignKeyRow(<<"c", "o", "d", "e">>, "public", N_order_items, N_item_no) >>]

(***************************************************************************)
(* DatabaseSchemaReader: the metadata queries                              *)
(***************************************************************************)
\* _get_tables: the rows of the table list, in the order the query gives
_get_tables(catalog) ==
    [i \in 1..Len(catalog) |->
        [table_schema |-> catalog[i].table_schema, table_name |-> catalog[i].table_name]]

\* the catalog entry a (schema, table name) pair names
CatalogEntry(catalog, schema_name, table_name) ==
    CHOOSE c \in {catalog[i] : i \in 1..Len(catalog)} :
        c.table_schema = schema_name /\ c.table_name = table_name

\* the type string _get_columns emits for one row
ColumnTypeString(row) ==
    IF row.data_type = T_character_varying /\ Truthy(row.character_maximum_length)
    THEN T_varchar \o <<"(">> \o row.character_maximum_length[1] \o <<")">>
    ELSE IF row.data_type = T_numeric /\ Truthy(row.numeric_precision)
                                          /\ Truthy(row.numeric_scale)
         THEN T_numeric \o <<"(">> \o row.numeric_precision[1] \o <<",">>
                        \o row.numeric_scale[1] \o <<")">>
         ELSE row.data_type

\* _get_columns: one column dict per row, in ordinal order
_get_columns(entry) ==
    [i \in 1..Len(entry.columns) |->
        [name |-> entry.columns[i].column_name,
         data_type |-> ColumnTypeString(entry.columns[i]),
         is_nullable |-> (entry.columns[i].is_nullable = "YES"),
         column_default |-> entry.columns[i].column_default,
         is_primary_key |-> FALSE,
         is_foreign_key |-> FALSE,
         foreign_key_info |-> None]]

\* _get_primary_keys: the key's column names, in key order
_get_primary_keys(entry) == entry.primary_keys

\* _get_foreign_keys: one dict per row
_get_foreign_keys(entry) ==
    [i \in 1..Len(entry.foreign_keys) |->
        [column |-> entry.foreign_keys[i][1],
         referenced_schema |-> entry.foreign_keys[i][2],
         referenced_table |-> entry.foreign_keys[i][3],
         referenced_column |-> entry.foreign_keys[i][4]]]

\* the foreign keys of fks whose source column is name, in order
ForeignKeysOf(fks, name) == SelectSeq(fks, LAMBDA fk : fk.column = name)

\* a loop that matches a foreign key by the column it references
CrossLinkByReferenced(col, pks, fks) ==
    LET mine == SelectSeq(fks, LAMBDA fk : fk.referenced_column = col.name)
    IN  [col EXCEPT
            !.is_primary_key = (\E k \in 1..Len(pks) : pks[k] = col.name),
            !.is_foreign_key = (mine # <<>>),
            !.foreign_key_info =
                IF mine = <<>> THEN None
                ELSE [referenced_table |-> mine[Len(mine)].referenced_table,
                      referenced_column |-> mine[Len(mine)].referenced_column]]

\* the loop of _get_table_info over one column: the flags set by name matching;
\* every matching foreign key overwrites foreign_key_info, so the last one stays
CrossLink(col, pks, fks) ==
    LET mine == ForeignKeysOf(fks, col.name)
    IN  [col EXCEPT
            !.is_primary_key = (\E k \in 1..Len(pks) : pks[k] = col.name),
            !.is_foreign_key = (mine # <<>>),
            !.foreign_key_info =
                IF mine = <<>> THEN None
                ELSE [referenced_table |-> mine[Len(mine)].referenced_table,
                      referenced_column |-> mine[Len(mine)].referenced_column]]

\* what _get_table_info returns from the three query results
_get_table_info(schema_name, table_name, cols, pks, fks) ==
    [name |-> table_name,
     schema |-> schema_name,
     columns |-> [i \in 1..Len(cols) |-> CrossLink(cols[i], pks, fks)],
     primary_keys |-> pks,
     foreign_keys |-> fks]

\* the table a successful _get_table_info yields for a catalog entry
TableOf(entry) ==
    _get_table_info(entry.table_schema, entry.table_name, _get_columns(entry),
              _get_primary_keys(entry), _get_foreign_keys(entry))

(***************************************************************************)
(* DatabaseSchemaReader.read_schema, step by step.  Every step that talks   *)
(* to the database either succeeds or raises.                              *)
(***************************************************************************)
MaxTables == 2
MaxCalls == 2

\* the catalogs read: up to MaxTables distinct sample tables, in the query's order
RECURSIVE DistinctSeqs(_, _)
DistinctSeqs(S, n) ==
    IF n = 0 THEN {<<>>}
    ELSE LET shorter == DistinctSeqs(S, n - 1)
             longest == {t \in shorter : Len(t) = n - 1}
         IN  shorter \cup
             UNION {{Append(q, x) : x \in S \ {q[i] : i \in 1..Len(q)}} : q \in longest}

Catalogs == DistinctSeqs(SampleCatalogTables \cup {CatProducts}, MaxTables)

\* disconnect: the cursors open once self.cursor, if set, is closed
CursorsAfterDisconnect(open, cursor) == IF cursor # 0 THEN open \ {cursor} ELSE open

\* disconnect: the connections open once self.conn, if set, is closed
ConnsLeftOpen(open, conn) == open
ConnsAfterDisconnect(open, conn) == IF conn # 0 THEN open \ {conn} ELSE open

\* what read_schema hands to its caller: the return value of line 51 when no
\* exception is propagating after the finally block, nothing otherwise
HandedOverAlways(propagating, data) == <<[tables |-> data]>>
HandedOver(propagating, data) == IF propagating THEN <<>> ELSE <<[tables |-> data]>>

\* the caller calls read_schema
ReadSchemaCall ==
    /\ rpc = "idle"
    /\ calls < MaxCalls
    /\ calls' = calls + 1
    /\ rpc' = "connect"
    /\ exc' = FALSE
    /\ result' = <<>>
    /\ outcome' = "running"
    /\ tables' = <<>> /\ tidx' = 0 /\ schema_data' = <<>>
    /\ columns' = <<>> /\ primary_keys' = <<>> /\ foreign_keys' = <<>>
    /\ queries' = <<>>
    /\ UNCHANGED <<db, self_conn, self_cursor, open_conns, open_cursors, n_conns, n_cursors>>
    /\ UNCHANGED notReader

\* connect: psycopg2.connect raises, or it succeeds and conn.cursor() raises,
\* or both succeed
Connect ==
    /\ rpc = "connect"
    /\ \/ /\ exc' = TRUE
          /\ rpc' = "finally"
          /\ UNCHANGED <<self_conn, self_cursor, open_conns, open_cursors, n_conns, n_cursors>>
       \/ /\ n_conns' = n_conns + 1
          /\ self_conn' = n_conns + 1
          /\ open_conns' = open_conns \cup {n_conns + 1}
          /\ exc' = TRUE
          /\ rpc' = "finally"
          /\ UNCHANGED <<self_cursor, open_cursors, n_cursors>>
       \/ /\ n_conns' = n_conns + 1
          /\ self_conn' = n_conns + 1
          /\ open_conns' = open_conns \cup {n_conns + 1}
          /\ n_cursors' = n_cursors + 1
          /\ self_cursor' = n_cursors + 1
          /\ open_cursors' = open_cursors \cup {n_cursors + 1}
          /\ rpc' = "get_tables"
          /\ UNCHANGED exc
    /\ UNCHANGED <<db, tables, tidx, columns, primary_keys, foreign_keys, schema_data,
                   result, outcome, calls, queries>>
    /\ UNCHANGED notReader

\* a query raises: the exception leaves the try block
QueryRaises(kind) ==
    /\ queries' = Append(queries, <<self_conn, kind, tidx>>)
    /\ exc' = TRUE
    /\ rpc' = "finally"

\* tables = self._get_tables(); schema_data = {'tables': []}
GetTablesStep ==
    /\ rpc = "get_tables"
    /\ \/ /\ QueryRaises("tables")
          /\ UNCHANGED <<tables, tidx, schema_data>>
       \/ /\ queries' = Append(queries, <<self_conn, "tables", 0>>)
          /\ tables' = _get_tables(db)
          /\ schema_data' = <<>>
          /\ tidx' = 1
          /\ rpc' = IF Len(db) = 0 THEN "finally" ELSE "get_columns"
          /\ UNCHANGED exc
    /\ UNCHANGED <<db, self_conn, self_cursor, open_conns, open_cursors, n_conns, n_cursors,
                   columns, primary_keys, foreign_keys, result, outcome, calls>>
    /\ UNCHANGED notReader

\* _get_table_info: columns = self._get_columns(schema, table_name)
GetColumnsStep ==
    /\ rpc = "get_columns"
    /\ \/ /\ QueryRaises("columns")
          /\ UNCHANGED columns
       \/ /\ queries' = Append(queries, <<self_conn, "columns", tidx>>)
          /\ columns' = _get_columns(CatalogEntry(db, tables[tidx].table_schema,
                                                tables[tidx].table_name))
          /\ rpc' = "get_primary_keys"
          /\ UNCHANGED exc
    /\ UNCHANGED <<db, self_conn, self_cursor, open_conns, open_cursors, n_conns, n_cursors,
                   tables, tidx, primary_keys, foreign_keys, schema_data, result, outcome,
                   calls>>
    /\ UNCHANGED notReader

\* a reader that takes the primary keys from the answer of the column query
\* and issues no query of its own for them
GetPrimaryKeysBatched ==
    /\ rpc = "get_primary_keys"
    /\ primary_keys' = _get_primary_keys(CatalogEntry(db, tables[tidx].table_schema,
                                                   tables[tidx].table_name))
    /\ rpc' = "get_foreign_keys"
    /\ UNCHANGED <<db, self_conn, self_cursor, open_conns, open_cursors, n_conns, n_cursors,
                   tables, tidx, columns, foreign_keys, schema_data, result, outcome, calls,
                   exc, queries>>
    /\ UNCHANGED notReader

\* _get_table_info: primary_keys = self._get_primary_keys(schema, table_name)
GetPrimaryKeysStep ==
    /\ rpc = "get_primary_keys"
    /\ \/ /\ QueryRaises("primary_keys")
          /\ UNCHANGED primary_keys
       \/ /\ queries' = Append(queries, <<self_conn, "primary_keys", tidx>>)
          /\ primary_keys' = _get_primary_keys(CatalogEntry(db, tables[tidx].table_schema,
                                                         tables[tidx].table_name))
          /\ rpc' = "get_foreign_keys"
          /\ UNCHANGED exc
    /\ UNCHANGED <<db, self_conn, self_cursor, open_conns, open_cursors, n_conns, n_cursors,
                   tables, tidx, columns, foreign_keys, schema_data, result, outcome, calls>>
    /\ UNCHANGED notReader

\* _get_table_info: the foreign-key query, the cross-linking loop and the return;
\* read_schema appends the table and goes on to the next one, or returns
GetForeignKeysStep ==
    /\ rpc = "get_foreign_keys"
    /\ \/ /\ QueryRaises("foreign_keys")
          /\ UNCHANGED <<foreign_keys, schema_data, tidx>>
       \/ LET fks == _get_foreign_keys(CatalogEntry(db, tables[tidx].table_schema,
                                                 tables[tidx].table_name))
          IN  /\ queries' = Append(queries, <<self_conn, "foreign_keys", tidx>>)
              /\ foreign_keys' = fks
              /\ schema_data' = Append(schema_data,
                                       _get_table_info(tables[tidx].table_schema,
                                                 tables[tidx].table_name,
                                                 columns, primary_keys, fks))
              /\ tidx' = tidx + 1
              /\ rpc' = IF tidx = Len(tables) THEN "finally" ELSE "get_columns"
              /\ UNCHANGED exc
    /\ UNCHANGED <<db, self_conn, self_cursor, open_conns, open_cursors, n_conns, n_cursors,
                   tables, columns, primary_keys, result, outcome, calls>>
    /\ UNCHANGED notReader

\* finally: self.disconnect(); then the return value or the exception reaches the caller
Finally ==
    /\ rpc = "finally"
    /\ open_cursors' = CursorsAfterDisconnect(open_cursors, self_cursor)
    /\ open_conns' = ConnsAfterDisconnect(open_conns, self_conn)
    /\ result' = HandedOver(exc, schema_data)
    /\ outcome' = IF exc THEN "raised" ELSE "returned"
    /\ rpc' = "idle"
    /\ UNCHANGED <<db, self_conn, self_cursor, n_conns, n_cursors, tables, tidx, columns,
                   primary_keys, foreign_keys, schema_data, exc, calls, queries>>
    /\ UNCHANGED notReader

(***************************************************************************)
(* map_postgres_to_csharp (utils.py)                                       *)
(***************************************************************************)
\* type_mapping: the pairs (source type, C# type)
CSharpTypeMapping == <<
    <<<<"i", "n", "t", "e", "g", "e", "r">>,
      <<"i", "n", "t">>>>,
    <<<<"i", "n", "t">>,
      <<"i", "n", "t">>>>,
    <<<<"i", "n", "t", "4">>,
      <<"i", "n", "t">>>>,
    <<<<"s", "e", "r", "i", "a", "l">>,
      <<"i", "n", "t">>>>,
    <<<<"s", "m", "a", "l", "l", "i", "n", "t">>,
      <<"i", "n", "t">>>>,
    <<<<"i", "n", "t", "2">>,
      <<"i", "n", "t">>>>,
    <<<<"b", "i", "g", "i", "n", "t">>,
      <<"l", "o", "n", "g">>>>,
    <<<<"i", "n", "t", "8">>,
      <<"l", "o", "n", "g">>>>,
    <<<<"b", "i", "g", "s", "e", "r", "i", "a", "l">>,
      <<"l", "o", "n", "g">>>>,
    <<<<"s", "e", "r", "i", "a", "l", "8">>,
      <<"l", "o", "n", "g">>>>,
    <<<<"u", "u", "i", "d">>,
      <<"G", "u", "i", "d">>>>,
    <<<<"t", "e", "x", "t">>,
      <<"s", "t", "r", "i", "n", "g">>>>,
    <<<<"c", "h", "a", "r", "a", "c", "t", "e", "r", " ", "v", "a", "r", "y", "i", "n", "g">>,
      <<"s", "t", "r", "i", "n", "g">>>>,
    <<<<"v", "a", "r", "c", "h", "a", "r">>,
      <<"s", "t", "r", "i", "n", "g">>>>,
    <<<<"c", "h", "a", "r", "a", "c", "t", "e", "r">>,
      <<"s", "t", "r", "i", "n", "g">>>>,
    <<<<"c", "h", "a", "r">>,
      <<"s", "t", "r", "i", "n", "g">>>>,
    <<<<"b", "o", "o", "l", "e", "a", "n">>,
      <<"b", "o", "o", "l">>>>,
    <<<<"b", "o", "o", "l">>,
      <<"b", "o", "o", "l">>>>,
    <<<<"d", "a", "t", "e">>,
      <<"D", "a", "t", "e", "T", "i", "m", "e">>>>,
    <<<<"t", "i", "m", "e", "s", "t", "a", "m", "p">>,
      <<"D", "a", "t", "e", "T", "i", "m", "e">>>>,
    <<<<"t", "i", "m", "e", "s", "t", "a", "m", "p", " ", "w", "i", "t", "h", "o", "u", "t", " ", "t", "i", "m", "e", " ", "z", "o", "n", "e">>,
      <<"D", "a", "t", "e", "T", "i", "m", "e">>>>,
    <<<<"t", "i", "m", "e", "s", "t", "a", "m", "p", " ", "w", "i", "t", "h", " ", "t", "i", "m", "e", " ", "z", "o", "n", "e">>,
      <<"D", "a", "t", "e", "T", "i", "m", "e">>>>,
    <<<<"t", "i", "m", "e", "s", "t", "a", "m", "p", "t", "z">>,
      <<"D", "a", "t", "e", "T", "i", "m", "e">>>>,
    <<<<"n", "u", "m", "e", "r", "i", "c">>,
      <<"d", "e", "c", "i", "m", "a", "l">>>>,
    <<<<"d", "e", "c", "i", "m", "a", "l">>,
      <<"d", "e", "c", "i", "m", "a", "l">>>>,
    <<<<"d", "o", "u", "b", "l", "e", " ", "p", "r", "e", "c", "i", "s", "i", "o", "n">>,
      <<"d", "o", "u", "b", "l", "e">>>>,
    <<<<"f", "l", "o", "a", "t", "8">>,
      <<"d", "o", "u", "b", "l", "e">>>>,
    <<<<"r", "e", "a", "l">>,
      <<"d", "o", "u", "b", "l", "e">>>>,
    <<<<"f", "l", "o", "a", "t", "4">>,
      <<"f", "l", "o", "a", "t">>>>,
    <<<<"b", "y", "t", "e", "a">>,
      <<"b", "y", "t", "e", "[", "]">>>>,
    <<<<"j", "s", "o", "n">>,
      <<"s", "t", "r", "i", "n", "g">>>>,
    <<<<"j", "s", "o", "n", "b">>,
      <<"s", "t", "r", "i", "n", "g">>>>,
    <<<<"t", "i", "m", "e">>,
      <<"T", "i", "m", "e", "S", "p", "a", "n">>>>,
    <<<<"t", "i", "m", "e", " ", "w", "i", "t", "h", "o", "u", "t", " ", "t", "i", "m", "e", " ", "z", "o", "n", "e">>,
      <<"T", "i", "m", "e", "S", "p", "a", "n">>>>,
    <<<<"t", "i", "m", "e", " ", "w", "i", "t", "h", " ", "t", "i", "m", "e", " ", "z", "o", "n", "e">>,
      <<"T", "i", "m", "e", "S", "p", "a", "n">>>>,
    <<<<"i", "n", "t", "e", "r", "v", "a", "l">>,
      <<"T", "i", "m", "e", "S", "p", "a", "n">>>>,
    <<<<"m", "o", "n", "e", "y">>,
      <<"d", "e", "c", "i", "m", "a", "l">>>>>>

S_string == <<"s", "t", "r", "i", "n", "g">>
S_byte_array == <<"b", "y", "t", "e", "[", "]">>
S_int == <<"i", "n", "t">>

\* a lookup whose default is the empty string
LookupWithoutDefault(mapping, key, default) ==
    IF \E i \in 1..Len(mapping) : mapping[i][1] = key
    THEN mapping[CHOOSE i \in 1..Len(mapping) : mapping[i][1] = key][2]
    ELSE <<>>

\* dict.get(key, default) on a sequence of pairs with distinct keys
Lookup(mapping, key, default) ==
    IF \E i \in 1..Len(mapping) : mapping[i][1] = key
    THEN mapping[CHOOSE i \in 1..Len(mapping) : mapping[i][1] = key][2]
    ELSE default

\* a lookup key that keeps the qualifier
WithQualifier(s) == s

\* s.split('(')[0]: what stands before the first parenthesis
RECURSIVE BeforeParen(_)
BeforeParen(s) ==
    IF s = <<>> \/ Head(s) = "(" THEN <<>> ELSE <<Head(s)>> \o BeforeParen(Tail(s))

\* s.strip(): without the white space at both ends
RECURSIVE StripLeft(_)
StripLeft(s) == IF s # <<>> /\ IsSpace(Head(s)) THEN StripLeft(Tail(s)) ELSE s
RECURSIVE StripRight(_)
StripRight(s) ==
    IF s # <<>> /\ IsSpace(s[Len(s)]) THEN StripRight(SubSeq(s, 1, Len(s) - 1)) ELSE s
Strip(s) == StripRight(StripLeft(s))

map_postgres_to_csharp(postgres_type, is_nullable) ==
    LET base_type == Strip(BeforeParen(Lowered(postgres_type)))
        csharp_type == Lookup(CSharpTypeMapping, base_type, S_string)
    IN  IF is_nullable /\ csharp_type \notin {S_string, S_byte_array}
        THEN csharp_type \o <<"?">>
        ELSE csharp_type

(***************************************************************************)
(* map_postgres_to_python and map_postgres_to_sqlalchemy (utils.py)        *)
(***************************************************************************)
\* type_mapping of map_postgres_to_python: the pairs (source type, Python type)
PythonTypeMapping == <<
    <<<<"i", "n", "t", "e", "g", "e", "r">>,
      <<"i", "n", "t">>>>,
    <<<<"i", "n", "t">>,
      <<"i", "n", "t">>>>,
    <<<<"i", "n", "t", "4">>,
      <<"i", "n", "t">>>>,
    <<<<"s", "e", "r", "i", "a", "l">>,
      <<"i", "n", "t">>>>,
    <<<<"s", "m", "a", "l", "l", "i", "n", "t">>,
      <<"i", "n", "t">>>>,
    <<<<"i", "n", "t", "2">>,
      <<"i", "n", "t">>>>,
    <<<<"b", "i", "g", "i", "n", "t">>,
      <<"i", "n", "t">>>>,
    <<<<"i", "n", "t", "8">>,
      <<"i", "n", "t">>>>,
    <<<<"b", "i", "g", "s", "e", "r", "i", "a", "l">>,
      <<"i", "n", "t">>>>,
    <<<<"s", "e", "r", "i", "a", "l", "8">>,
      <<"i", "n", "t">>>>,
    <<<<"u", "u", "i", "d">>,
      <<"U", "U", "I", "D">>>>,
    <<<<"t", "e", "x", "t">>,
      <<"s", "t", "r">>>>,
    <<<<"c", "h", "a", "r", "a", "c", "t", "e", "r", " ", "v", "a", "r", "y", "i", "n", "g">>,
      <<"s", "t", "r">>>>,
    <<<<"v", "a", "r", "c", "h", "a", "r">>,
      <<"s", "t", "r">>>>,
    <<<<"c", "h", "a", "r", "a", "c", "t", "e", "r">>,
      <<"s", "t", "r">>>>,
    <<<<"c", "h", "a", "r">>,
      <<"s", "t", "r">>>>,
    <<<<"b", "o", "o", "l", "e", "a", "n">>,
      <<"b", "o", "o", "l">>>>,
    <<<<"b", "o", "o", "l">>,
      <<"b", "o", "o", "l">>>>,
    <<<<"d", "a", "t", "e">>,
      <<"d", "a", "t", "e">>>>,
    <<<<"t", "i", "m", "e", "s", "t", "a", "m", "p">>,
      <<"d", "a", "t", "e", "t", "i", "m", "e">>>>,
    <<<<"t", "i", "m", "e", "s", "t", "a", "m", "p", " ", "w", "i", "t", "h", "o", "u", "t", " ", "t", "i", "m", "e", " ", "z", "o", "n", "e">>,
      <<"d", "a", "t", "e", "t", "i", "m", "e">>>>,
    <<<<"t", "i", "m", "e", "s", "t", "a", "m", "p", " ", "w", "i", "t", "h", " ", "t", "i", "m", "e", " ", "z", "o", "n", "e">>,
      <<"d", "a", "t", "e", "t", "i", "m", "e">>>>,
    <<<<"t", "i", "m", "e", "s", "t", "a", "m", "p", "t", "z">>,
      <<"d", "a", "t", "e", "t", "i", "m", "e">>>>,
    <<<<"n", "u", "m", "e", "r", "i", "c">>,
      <<"D", "e", "c", "i", "m", "a", "l">>>>,
    <<<<"d", "e", "c", "i", "m", "a", "l">>,
      <<"D", "e", "c", "i", "m", "a", "l">>>>,
    <<<<"d", "o", "u", "b", "l", "e", " ", "p", "r", "e", "c", "i", "s", "i", "o", "n">>,
      <<"f", "l", "o", "a", "t">>>>,
    <<<<"f", "l", "o", "a", "t", "8">>,
      <<"f", "l", "o", "a", "t">>>>,
    <<<<"r", "e", "a", "l">>,
      <<"f", "l", "o", "a", "t">>>>,
    <<<<"f", "l", "o", "a", "t", "4">>,
      <<"f", "l", "o", "a", "t">>>>,
    <<<<"b", "y", "t", "e", "a">>,
      <<"b", "y", "t", "e", "s">>>>,
    <<<<"j", "s", "o", "n">>,
      <<"d", "i", "c", "t">>>>,
    <<<<"j", "s", "o", "n", "b">>,
      <<"d", "i", "c", "t">>>>,
    <<<<"t", "i", "m", "e">>,
      <<"t", "i", "m", "e">>>>,
    <<<<"t", "i", "m", "e", " ", "w", "i", "t", "h", "o", "u", "t", " ", "t", "i", "m", "e", " ", "z", "o", "n", "e">>,
      <<"t", "i", "m", "e">>>>,
    <<<<"t", "i", "m", "e", " ", "w", "i", "t", "h", " ", "t", "i", "m", "e", " ", "z", "o", "n", "e">>,
      <<"t", "i", "m", "e">>>>,
    <<<<"i", "n", "t", "e", "r", "v", "a", "l">>,
      <<"t", "i", "m", "e", "d", "e", "l", "t", "a">>>>,
    <<<<"m", "o", "n", "e", "y">>,
      <<"D", "e", "c", "i", "m", "a", "l">>>>>>

map_postgres_to_python(postgres_type, is_nullable) ==
    LET base_type == Strip(BeforeParen(Lowered(postgres_type)))
        python_type == Lookup(PythonTypeMapping, base_type, <<"s", "t", "r">>)
    IN  IF is_nullable
        THEN <<"O", "p", "t", "i", "o", "n", "a", "l", "[">> \o python_type \o <<"]">>
        ELSE python_type

\* type_mapping of map_postgres_to_sqlalchemy: the pairs (source type, column type)
SqlalchemyTypeMapping == <<
    <<<<"i", "n", "t", "e", "g", "e", "r">>,
      <<"I", "n", "t", "e", "g", "e", "r">>>>,
    <<<<"i", "n", "t">>,
      <<"I", "n", "t", "e", "g", "e", "r">>>>,
    <<<<"i", "n", "t", "4">>,
      <<"I", "n", "t", "e", "g", "e", "r">>>>,
    <<<<"s", "e", "r", "i", "a", "l">>,
      <<"I", "n", "t", "e", "g", "e", "r">>>>,
    <<<<"s", "m", "a", "l", "l", "i", "n", "t">>,
      <<"S", "m", "a", "l", "l", "I", "n", "t", "e", "g", "e", "r">>>>,
    <<<<"i", "n", "t", "2">>,
      <<"S", "m", "a", "l", "l", "I", "n", "t", "e", "g", "e", "r">>>>,
    <<<<"b", "i", "g", "i", "n", "t">>,
      <<"B", "i", "g", "I", "n", "t", "e", "g", "e", "r">>>>,
    <<<<"i", "n", "t", "8">>,
      <<"B", "i", "g", "I", "n", "t", "e", "g", "e", "r">>>>,
    <<<<"b", "i", "g", "s", "e", "r", "i", "a", "l">>,
      <<"B", "i", "g", "I", "n", "t", "e", "g", "e", "r">>>>,
    <<<<"s", "e", "r", "i", "a", "l", "8">>,
      <<"B", "i", "g", "I", "n", "t", "e", "g", "e", "r">>>>,
    <<<<"u", "u", "i", "d">>,
      <<"P", "G", "_", "U", "U", "I", "D", "(", "a", "s", "_", "u", "u", "i", "d", "=", "T", "r", "u", "e", ")">>>>,
    <<<<"t", "e", "x", "t">>,
      <<"T", "e", "x", "t">>>>,
    <<<<"c", "h", "a", "r", "a", "c", "t", "e", "r", " ", "v", "a", "r", "y", "i", "n", "g">>,
      <<"S", "t", "r", "i", "n", "g">>>>,
    <<<<"v", "a", "r", "c", "h", "a", "r">>,
      <<"S", "t", "r", "i", "n", "g">>>>,
    <<<<"c", "h", "a", "r", "a", "c", "t", "e", "r">>,
      <<"S", "t", "r", "i", "n", "g">>>>,
    <<<<"c", "h", "a", "r">>,
      <<"S", "t", "r", "i", "n", "g">>>>,
    <<<<"b", "o", "o", "l", "e", "a", "n">>,
      <<"B", "o", "o", "l", "e", "a", "n">>>>,
    <<<<"b", "o", "o", "l">>,
      <<"B", "o", "o", "l", "e", "a", "n">>>>,
    <<<<"d", "a", "t", "e">>,
      <<"D", "a", "t", "e">>>>,
    <<<<"t", "i", "m", "e", "s", "t", "a", "m", "p">>,
      <<"D", "a", "t", "e", "T", "i", "m", "e", "(", "t", "i", "m", "e", "z", "o", "n", "e", "=", "T", "r", "u", "e", ")">>>>,
    <<<<"t", "i", "m", "e", "s", "t", "a", "m", "p", " ", "w", "i", "t", "h", "o", "u", "t", " ", "t", "i", "m", "e", " ", "z", "o", "n", "e">>,
      <<"D", "a", "t", "e", "T", "i", "m", "e">>>>,
    <<<<"t", "i", "m", "e", "s", "t", "a", "m", "p", " ", "w", "i", "t", "h", " ", "t", "i", "m", "e", " ", "z", "o", "n", "e">>,
      <<"D", "a", "t", "e", "T", "i", "m", "e", "(", "t", "i", "m", "e", "z", "o", "n", "e", "=", "T", "r", "u", "e", ")">>>>,
    <<<<"t", "i", "m", "e", "s", "t", "a", "m", "p", "t", "z">>,
      <<"D", "a", "t", "e", "T", "i", "m", "e", "(", "t", "i", "m", "e", "z", "o", "n", "e", "=", "T", "r", "u", "e", ")">>>>,
    <<<<"n", "u", "m", "e", "r", "i", "c">>,
      <<"N", "u", "m", "e", "r", "i", "c">>>>,
    <<<<"d", "e", "c", "i", "m", "a", "l">>,
      <<"N", "u", "m", "e", "r", "i", "c">>>>,
    <<<<"d", "o", "u", "b", "l", "e", " ", "p", "r", "e", "c", "i", "s", "i", "o", "n">>,
      <<"F", "l", "o", "a", "t">>>>,
    <<<<"f", "l", "o", "a", "t", "8">>,
      <<"F", "l", "o", "a", "t">>>>,
    <<<<"r", "e", "a", "l">>,
      <<"F", "l", "o", "a", "t">>>>,
    <<<<"f", "l", "o", "a", "t", "4">>,
      <<"F", "l", "o", "a", "t">>>>,
    <<<<"b", "y", "t", "e", "a">>,
      <<"L", "a", "r", "g", "e", "B", "i", "n", "a", "r", "y">>>>,
    <<<<"j", "s", "o", "n">>,
      <<"J", "S", "O", "N">>>>,
    <<<<"j", "s", "o", "n", "b">>,
      <<"J", "S", "O", "N">>>>,
    <<<<"t", "i", "m", "e">>,
      <<"T", "i", "m", "e">>>>,
    <<<<"t", "i", "m", "e", " ", "w", "i", "t", "h", "o", "u", "t", " ", "t", "i", "m", "e", " ", "z", "o", "n", "e">>,
      <<"T", "i", "m", "e">>>>,
    <<<<"t", "i", "m", "e", " ", "w", "i", "t", "h", " ", "t", "i", "m", "e", " ", "z", "o", "n", "e">>,
      <<"T", "i", "m", "e">>>>,
    <<<<"i", "n", "t", "e", "r", "v", "a", "l">>,
      <<"I", "n", "t", "e", "r", "v", "a", "l">>>>,
    <<<<"m", "o", "n", "e", "y">>,
      <<"N", "u", "m", "e", "r", "i", "c">>>>>>

\* s.split('(')[1]: what stands between the first parenthesis and the next one
RECURSIVE AfterParen(_)
AfterParen(s) ==
    IF s = <<>> THEN <<>>
    ELSE IF Head(s) = "(" THEN BeforeParen(Tail(s))
    ELSE AfterParen(Tail(s))

\* s.split(')')[0]: what stands before the first closing parenthesis
RECURSIVE BeforeClose(_)
BeforeClose(s) ==
    IF s = <<>> \/ Head(s) = ")" THEN <<>> ELSE <<Head(s)>> \o BeforeClose(Tail(s))

\* is_nullable is accepted and not used
map_postgres_to_sqlalchemy(postgres_type, is_nullable) ==
    LET lowered == Lowered(postgres_type)
        base_type == Strip(BeforeParen(lowered))
    IN  IF /\ base_type \in {T_varchar, T_character_varying}
            /\ \E i \in 1..Len(lowered) : lowered[i] = "("
        THEN <<"S", "t", "r", "i", "n", "g", "(">> \o BeforeClose(AfterParen(lowered))
                \o <<")">>
        ELSE Lookup(SqlalchemyTypeMapping, base_type, <<"S", "t", "r", "i", "n", "g">>)

(***************************************************************************)
(* DotNetCodeGenerator._prepare_table_data (code_generator.py)             *)
(***************************************************************************)
\* get_primary_key_type (utils.py): the C# type of the column named
\* primary_keys[0], None without primary keys, 'int' when no column has that name
get_primary_key_type(cols, pks) ==
    IF pks = <<>> THEN None
    ELSE LET named == {i \in 1..Len(cols) : cols[i].name = pks[1]}
         IN  IF named = {} THEN S_int
             ELSE LET col == cols[CHOOSE i \in named : \A j \in named : i <= j]
                  IN  map_postgres_to_csharp(col.data_type, col.is_nullable)

\* col_data: the view of one column
ColumnView(col) ==
    [Name |-> col.name,
     NameSnake |-> snake_case(col.name),
     NamePascal |-> pascal_case(col.name),
     NameCamel |-> camel_case(col.name),
     CSharpType |-> map_postgres_to_csharp(col.data_type, col.is_nullable),
     IsPrimaryKey |-> col.is_primary_key,
     IsForeignKey |-> col.is_foreign_key,
     IsNullable |-> col.is_nullable]

\* the surrogate key of lines 103-110
SurrogateKey ==
    [Name |-> N_id, NameSnake |-> N_id, NamePascal |-> <<"I", "d">>, NameCamel |-> N_id,
     CSharpType |-> S_int, IsPrimaryKey |-> TRUE]

\* a loop that keeps the last column view flagged primary
LastPrimary(views) ==
    IF \E i \in 1..Len(views) : views[i].IsPrimaryKey
    THEN views[CHOOSE i \in 1..Len(views) :
                  /\ views[i].IsPrimaryKey
                  /\ \A j \in (i + 1)..Len(views) : ~views[j].IsPrimaryKey]
    ELSE None

\* the loop of lines 84-100: the first column view flagged primary, or None
FirstPrimary(views) ==
    IF \E i \in 1..Len(views) : views[i].IsPrimaryKey
    THEN views[CHOOSE i \in 1..Len(views) :
                  /\ views[i].IsPrimaryKey
                  /\ \A j \in 1..(i - 1) : ~views[j].IsPrimaryKey]
    ELSE None

\* lines 102-110: the surrogate stands in when no column is flagged and columns is non-empty
ResolvedPrimaryKey(views) ==
    IF FirstPrimary(views) = None /\ views # <<>> THEN SurrogateKey ELSE FirstPrimary(views)

_prepare_table_data(tbl) ==
    LET views == [i \in 1..Len(tbl.columns) |-> ColumnView(tbl.columns[i])]
    IN  [TableName |-> tbl.name,
         TableNameSnake |-> snake_case(tbl.name),
         TableNamePascal |-> pascal_case(tbl.name),
         TableNameCamel |-> camel_case(tbl.name),
         Columns |-> views,
         NonPrimaryColumns |-> SelectSeq(views, LAMBDA v : ~v.IsPrimaryKey),
         PrimaryKey |-> ResolvedPrimaryKey(views),
         PrimaryKeys |-> tbl.primary_keys,
         ForeignKeys |-> tbl.foreign_keys]

(***************************************************************************)
(* normalize_connection_string for the 'dotnet' target (utils.py)          *)
(***************************************************************************)
\* the index of the first c in s at or after i, or 0
RECURSIVE IndexFrom(_, _, _)
IndexFrom(s, c, i) ==
    IF i > Len(s) THEN 0 ELSE IF s[i] = c THEN i ELSE IndexFrom(s, c, i + 1)

\* the last index of the run of digits that starts at i (i - 1 when there is none)
RECURSIVE DigitRunEnd(_, _)
DigitRunEnd(s, i) ==
    IF i <= Len(s) /\ IsDigit(s[i]) THEN DigitRunEnd(s, i + 1) ELSE i - 1

StartsWith(s, prefix) == Len(s) >= Len(prefix) /\ SubSeq(s, 1, Len(prefix)) = prefix

\* whether sub occurs in s
Contains(s, sub) ==
    \E i \in 1..(Len(s) - Len(sub) + 1) : SubSeq(s, i, i + Len(sub) - 1) = sub

S_postgresql_scheme == <<"p", "o", "s", "t", "g", "r", "e", "s", "q", "l", ":", "/", "/">>
S_host_eq == <<"h", "o", "s", "t", "=">>
S_semi_port_eq == <<";", "p", "o", "r", "t", "=">>
S_semi_database_eq == <<";", "d", "a", "t", "a", "b", "a", "s", "e", "=">>
S_semi_username_eq == <<";", "u", "s", "e", "r", "n", "a", "m", "e", "=">>
S_semi_password_eq == <<";", "p", "a", "s", "s", "w", "o", "r", "d", "=">>

\* re.match(r'postgresql://([^:]+):([^@]+)@([^:]+):(\d+)/(.+)', conn_str): the groups
\* (user, password, host, port, database), or <<>> when there is no match
MatchUrl(conn_str) ==
    LET u0 == Len(S_postgresql_scheme) + 1
        c1 == IndexFrom(conn_str, ":", u0)
        a1 == IF c1 = 0 THEN 0 ELSE IndexFrom(conn_str, "@", c1 + 1)
        c2 == IF a1 = 0 THEN 0 ELSE IndexFrom(conn_str, ":", a1 + 1)
        d2 == IF c2 = 0 THEN 0 ELSE DigitRunEnd(conn_str, c2 + 1)
    IN  IF /\ StartsWith(conn_str, S_postgresql_scheme)
           /\ c1 > u0
           /\ a1 > c1 + 1
           /\ c2 > a1 + 1
           /\ d2 > c2
           /\ d2 + 2 <= Len(conn_str)
           /\ conn_str[d2 + 1] = "/"
        THEN << SubSeq(conn_str, u0, c1 - 1), SubSeq(conn_str, c1 + 1, a1 - 1),
                SubSeq(conn_str, a1 + 1, c2 - 1), SubSeq(conn_str, c2 + 1, d2),
                SubSeq(conn_str, d2 + 2, Len(conn_str)) >>
        ELSE <<>>

normalize_connection_string_for_dotnet(conn_str) ==
    IF conn_str = <<>> THEN <<>>
    ELSE IF StartsWith(conn_str, S_postgresql_scheme) /\ MatchUrl(conn_str) # <<>>
         THEN LET g == MatchUrl(conn_str)
              IN  S_host_eq \o g[3] \o S_semi_port_eq \o g[4] \o S_semi_database_eq \o g[5]
                      \o S_semi_username_eq \o g[1] \o S_semi_password_eq \o g[2]
         ELSE conn_str

(***************************************************************************)
(* normalize_connection_string_for_python and normalize_connection_string  *)
(* (utils.py)                                                              *)
(***************************************************************************)
normalize_connection_string_for_python(conn_str) ==
    LET asyncpg_scheme == <<"p", "o", "s", "t", "g", "r", "e", "s", "q", "l", "+", "a", "s", "y", "n", "c", "p", "g", ":", "/", "/">>
        \* s.replace('postgresql://', 'postgresql+asyncpg://'): every occurrence
        RECURSIVE Replaced(_)
        Replaced(s) ==
            IF s = <<>> THEN <<>>
            ELSE IF StartsWith(s, S_postgresql_scheme)
                 THEN asyncpg_scheme
                          \o Replaced(SubSeq(s, Len(S_postgresql_scheme) + 1, Len(s)))
                 ELSE <<Head(s)>> \o Replaced(Tail(s))
        \* s.split(';')
        RECURSIVE Split(_)
        Split(s) ==
            LET i == IndexFrom(s, ";", 1)
            IN  IF i = 0 THEN <<s>>
                ELSE <<SubSeq(s, 1, i - 1)>> \o Split(SubSeq(s, i + 1, Len(s)))
        \* the parts with '=' in them, each cut at its first '='
        parts == SelectSeq(Split(conn_str), LAMBDA part : IndexFrom(part, "=", 1) # 0)
        Key(part) == Lowered(Strip(SubSeq(part, 1, IndexFrom(part, "=", 1) - 1)))
        Value(part) == Strip(SubSeq(part, IndexFrom(part, "=", 1) + 1, Len(part)))
        \* params.get(key, default): a later part overwrites an earlier one
        Get(key, default) ==
            LET at == {i \in 1..Len(parts) : Key(parts[i]) = key}
            IN  IF at = {} THEN default
                ELSE Value(parts[CHOOSE i \in at : \A j \in at : j <= i])
        host == Get(<<"h", "o", "s", "t">>, Get(<<"s", "e", "r", "v", "e", "r">>, <<"l", "o", "c", "a", "l", "h", "o", "s", "t">>))
        port == Get(<<"p", "o", "r", "t">>, <<"5", "4", "3", "2">>)
        database == Get(<<"d", "a", "t", "a", "b", "a", "s", "e">>, <<"p", "o", "s", "t", "g", "r", "e", "s">>)
        username == Get(<<"u", "s", "e", "r", "n", "a", "m", "e">>, Get(<<"u", "s", "e", "r">>, <<"p", "o", "s", "t", "g", "r", "e", "s">>))
        password == Get(<<"p", "a", "s", "s", "w", "o", "r", "d">>, <<>>)
    IN  IF conn_str = <<>> THEN <<>>
        ELSE IF StartsWith(conn_str, S_postgresql_scheme) THEN Replaced(conn_str)
        ELSE IF \/ Contains(Lowered(conn_str), S_host_eq)
                \/ Contains(Lowered(conn_str), <<"s", "e", "r", "v", "e", "r", "=">>)
             THEN asyncpg_scheme \o username \o <<":">> \o password \o <<"@">> \o host
                      \o <<":">> \o port \o <<"/">> \o database
        ELSE conn_str

normalize_connection_string(conn_str, target_framework) ==
    IF Lowered(target_framework) = <<"f", "a", "s", "t", "a", "p", "i">>
    THEN normalize_connection_string_for_python(conn_str)
    ELSE normalize_connection_string_for_dotnet(conn_str)

(***************************************************************************)
(* DotNetCodeGenerator: the artifacts of generate_application               *)
(***************************************************************************)
\* template.render(**context): the content is a function of the template and the context
Render(template, context) == [template |-> template, context |-> context]

\* the context of template.render() without arguments
NoContext == [empty |-> TRUE]

\* files[path] = content on a dict kept in insertion order
DictSet(fs, path, content) ==
    IF \E i \in 1..Len(fs) : fs[i].path = path
    THEN [i \in 1..Len(fs) |->
            IF fs[i].path = path THEN [path |-> path, content |-> content] ELSE fs[i]]
    ELSE Append(fs, [path |-> path, content |-> content])

Paths(fs) == {fs[i].path : i \in 1..Len(fs)}

\* A path is a sequence of pieces: the literal parts of the f-strings of lines 30-45
\* are cut at every "/", which is a piece of its own, and an interpolated name
\* contributes its characters.

\* the nine per-table artifact kinds, in the order of lines 30-45
ArtifactKinds == <<"Entity", "RepositoryInterface", "RepositoryImplementation", "Controller", "ServiceInterface", "Service", "CreateDto", "UpdateDto", "DtoValidator">>

\* the path of a per-table artifact, from TableNamePascal
ArtifactPath(kind, pascal) ==
    CASE kind = "Entity" ->
            <<"src", "/", "Core", "/", "Entities", "/">> \o pascal
                \o <<".cs">>
      [] kind = "RepositoryInterface" ->
            <<"src", "/", "Core", "/", "Interfaces", "/", "I">> \o pascal
                \o <<"Repository.cs">>
      [] kind = "RepositoryImplementation" ->
            <<"src", "/", "Infrastructure", "/", "Data", "/">> \o pascal
                \o <<"Repository.cs">>
      [] kind = "Controller" ->
            <<"src", "/", "WebApi", "/", "Controllers", "/">> \o pascal
                \o <<"Controller.cs">>
      [] kind = "ServiceInterface" ->
            <<"src", "/", "Application", "/", "Interfaces", "/", "I">> \o pascal
                \o <<"Service.cs">>
      [] kind = "Service" ->
            <<"src", "/", "Application", "/", "Services", "/">> \o pascal
                \o <<"Service.cs">>
      [] kind = "CreateDto" ->
            <<"src", "/", "Application", "/", "DTOs", "/">> \o pascal
                \o <<"/", "Create">> \o pascal \o <<"Dto.cs">>
      [] kind = "UpdateDto" ->
            <<"src", "/", "Application", "/", "DTOs", "/">> \o pascal
                \o <<"/", "Update">> \o pascal \o <<"Dto.cs">>
      [] kind = "DtoValidator" ->
            <<"src", "/", "Application", "/", "Validators", "/">> \o pascal
                \o <<"/">> \o pascal \o <<"DtoValidator.cs">>

\* the template of a per-table artifact (generate_entity ... generate_dto_validator)
ArtifactTemplate(kind) ==
    CASE kind = "Entity" -> "entity.cs.j2"
      [] kind = "RepositoryInterface" -> "repository_interface.cs.j2"
      [] kind = "RepositoryImplementation" -> "repository_dapper.cs.j2"
      [] kind = "Controller" -> "controller.cs.j2"
      [] kind = "ServiceInterface" -> "application_service_interface.cs.j2"
      [] kind = "Service" -> "application_service.cs.j2"
      [] kind = "CreateDto" -> "create_dto.cs.j2"
      [] kind = "UpdateDto" -> "update_dto.cs.j2"
      [] kind = "DtoValidator" -> "dto_validator.cs.j2"

\* generate_entity ... generate_dto_validator: each renders _prepare_table_data(table)
ArtifactContent(kind, tbl) == Render(ArtifactTemplate(kind), _prepare_table_data(tbl))

\* the nine paths lines 30-45 assign for one table
PerTablePaths(tbl) ==
    LET pascal == _prepare_table_data(tbl).TableNamePascal
    IN  {ArtifactPath(ArtifactKinds[k], pascal) : k \in 1..Len(ArtifactKinds)}

\* lines 30-45: the assignments from the k-th on, for one table
RECURSIVE AddArtifactsFrom(_, _, _, _)
AddArtifactsFrom(fs, pascal, contents, k) ==
    IF k > Len(ArtifactKinds) THEN fs
    ELSE AddArtifactsFrom(DictSet(fs, ArtifactPath(ArtifactKinds[k], pascal), contents[k]),
                          pascal, contents, k + 1)

\* lines 28-45: table_data = self._prepare_table_data(table), then the nine assignments
AddArtifacts(fs, tbl) ==
    AddArtifactsFrom(fs, _prepare_table_data(tbl).TableNamePascal,
                     [k \in 1..Len(ArtifactKinds) |-> ArtifactContent(ArtifactKinds[k], tbl)],
                     1)

\* the Tables context of _generate_program and of the two DI extension renderers
TableNames(tbls) ==
    [i \in 1..Len(tbls) |-> [TableNamePascal |-> pascal_case(tbls[i].name)]]

\* lines 50-72: the schema-wide artifacts, in order
SchemaWideArtifacts(tbls, conn_str) == <<
    [path |-> <<"src", "/", "WebApi", "/", "Program.cs">>,
     content |-> Render("program.cs.j2", [Tables |-> TableNames(tbls)])],
    [path |-> <<"src", "/", "WebApi", "/", "appsettings.json">>,
     content |-> Render("appsettings.json.j2",
                        [connection_string |->
                            normalize_connection_string_for_dotnet(conn_str)])],
    [path |-> <<"src", "/", "WebApi", "/", "appsettings.Development.json">>,
     content |-> Render("literal", [text |-> "appsettings_dev"])],
    [path |-> <<"src", "/", "Core", "/", "Core.csproj">>,
     content |-> Render("core.csproj.j2", NoContext)],
    [path |-> <<"src", "/", "Application", "/", "Application.csproj">>,
     content |-> Render("application.csproj.j2", NoContext)],
    [path |-> <<"src", "/", "Infrastructure", "/", "Infrastructure.csproj">>,
     content |-> Render("infrastructure.csproj.j2", NoContext)],
    [path |-> <<"src", "/", "WebApi", "/", "WebApi.csproj">>,
     content |-> Render("webapi.csproj.j2", NoContext)],
    [path |-> <<"GeneratedApp.sln">>,
     content |-> Render("solution.sln.j2", NoContext)],
    [path |-> <<"src", "/", "Application", "/", "Extensions", "/", "ServiceCollectionExtensions.cs">>,
     content |-> Render("application_di_extensions.cs.j2", [Tables |-> TableNames(tbls)])],
    [path |-> <<"src", "/", "Infrastructure", "/", "Extensions", "/", "ServiceCollectionExtensions.cs">>,
     content |-> Render("infrastructure_di_extensions.cs.j2",
                        [Tables |-> TableNames(tbls)])],
    [path |-> <<"src", "/", "Application", "/", "README.md">>,
     content |-> Render("literal", [text |-> "application_readme"])],
    [path |-> <<"tests", "/", "UnitTests", "/", "README.md">>,
     content |-> Render("literal", [text |-> "unit_tests_readme"])],
    [path |-> <<"tests", "/", "IntegrationTests", "/", "README.md">>,
     content |-> Render("literal", [text |-> "integration_tests_readme"])],
    [path |-> <<".gitignore">>,
     content |-> Render("literal", [text |-> "gitignore"])],
    [path |-> <<"README.md">>,
     content |-> Render("literal", [text |-> "readme"])] >>

\* the paths lines 50-72 assign
SchemaWidePaths ==
    LET made == SchemaWideArtifacts(<<>>, <<>>)
    IN  {made[i].path : i \in 1..Len(made)}

RECURSIVE AddAll(_, _, _)
AddAll(fs, entries, k) ==
    IF k > Len(entries) THEN fs
    ELSE AddAll(DictSet(fs, entries[k].path, entries[k].content), entries, k + 1)

(***************************************************************************)
(* The group mapping app.py hands to the generator                         *)
(***************************************************************************)
G_General == <<"G", "e", "n", "e", "r", "a", "l">>
G_Sales == <<"S", "a", "l", "e", "s">>

InSomeGroup(groups, name) ==
    \E g \in 1..Len(groups) : \E k \in 1..Len(groups[g].tables) : groups[g].tables[k] = name

\* all_groups[group] = names on a dict kept in insertion order
GroupSet(groups, group, names) ==
    IF \E i \in 1..Len(groups) : groups[i].group = group
    THEN [i \in 1..Len(groups) |->
            IF groups[i].group = group THEN [group |-> group, tables |-> names]
            ELSE groups[i]]
    ELSE Append(groups, [group |-> group, tables |-> names])

\* app.py lines 359-368: the explicit groups, and the ungrouped tables under 'General'
AllGroups(explicit, schema_tables) ==
    LET names == [i \in 1..Len(schema_tables) |-> schema_tables[i].name]
        ungrouped == SelectSeq(names, LAMBDA n : ~InSomeGroup(explicit, n))
    IN  IF ungrouped # <<>> THEN GroupSet(explicit, G_General, ungrouped) ELSE explicit

\* the explicit groupings tried: some of the tables assigned to the group Sales
ExplicitGroupings(schema_tables) ==
    LET names == [i \in 1..Len(schema_tables) |-> schema_tables[i].name]
    IN  {IF chosen = {} THEN <<>>
         ELSE <<[group |-> G_Sales, tables |-> SelectSeq(names, LAMBDA n : n \in chosen)]>> :
            chosen \in SUBSET {names[i] : i \in 1..Len(names)}}

(***************************************************************************)
(* DotNetCodeGenerator.generate_application, step by step                  *)
(***************************************************************************)
SampleTables == {TableOf(c) : c \in SampleCatalogTables}
Schemas == DistinctSeqs(SampleTables, MaxTables)

C_url == <<"p", "o", "s", "t", "g", "r", "e", "s", "q", "l", ":", "/", "/", "u", ":", "p", "@", "h", ":", "5", "4", "3", "2", "/", "d">>
ConnectionStrings == {<<>>, C_url}

\* line 17: files = {}, a new dict in every run (FilesKept: the map of the
\* remembered run, were it kept on the generator)
FilesKept == IF ref = None THEN <<>> ELSE ref.files
NewFiles == <<>>

\* line 26: int((idx / total_tables) * 70); the float quotient truncates to the
\* integer quotient for every total_tables below 70
TablePercentOverrun(idx, total_tables) == ((idx + 1) * 100) \div total_tables
TablePercent(idx, total_tables) == (idx * 70) \div total_tables

\* if progress_callback: progress_callback(percent, ...): the callback sees the
\* percentage, and the files produced so far
Report(reports, callback, percent, produced) ==
    IF callback THEN Append(reports, [percent |-> percent, nfiles |-> Len(produced)])
    ELSE reports

\* lines 24-45, one iteration: the report, then the nine artifacts of the table
LoopBodyUnderCallback(state, callback, idx, tables_arg) ==
    [files |-> IF callback THEN AddArtifacts(state.files, tables_arg[idx + 1])
               ELSE state.files,
     progress |-> Report(state.progress, callback, TablePercent(idx, Len(tables_arg)),
                         state.files)]
LoopBody(state, callback, idx, tables_arg) ==
    [files |-> AddArtifacts(state.files, tables_arg[idx + 1]),
     progress |-> Report(state.progress, callback, TablePercent(idx, Len(tables_arg)),
                         state.files)]

\* the record of the run that has returned
ThisRun ==
    [schema |-> schema, connection_string |-> connection_string,
     progress_callback |-> progress_callback, files |-> gen_result[1], steps |-> steps,
     then_others |-> FALSE]

\* the remembered run once the run that has returned is over: a run on another
\* schema came after it
RefAfterThisRun ==
    IF ref # None /\ ref.schema # schema THEN [ref EXCEPT !.then_others = TRUE] ELSE ref

\* a caller calls generate_application(schema, connection_string, progress_callback);
\* lines 14-22: files = {}, the first report
GenStart ==
    /\ gpc = "idle"
    /\ \E s \in Schemas, c \in ConnectionStrings, cb \in BOOLEAN :
        /\ schema' = s
        /\ connection_string' = c
        /\ progress_callback' = cb
        /\ progress' = Report(<<>>, cb, 0, NewFiles)
    /\ table_groups' = <<>>
    /\ files' = NewFiles
    /\ gidx' = 0
    /\ gpc' = "loop"
    /\ steps' = <<"start">>
    /\ gen_result' = <<>>
    /\ UNCHANGED ref
    /\ UNCHANGED notGen

\* app.py lines 357-382: all_groups is built from the user's groups and the
\* generator is called with a callback that drives the progress bar.  table_groups
\* is the caller's all_groups: no parameter of generate_application (lines 14-16)
\* receives it and nothing in lines 17-77 reads it
AppGenerate ==
    /\ gpc = "idle"
    /\ \E s \in Schemas, c \in ConnectionStrings :
        /\ schema' = s
        /\ connection_string' = c
        /\ \E explicit \in ExplicitGroupings(s) : table_groups' = AllGroups(explicit, s)
    /\ progress_callback' = TRUE
    /\ progress' = Report(<<>>, TRUE, 0, NewFiles)
    /\ files' = NewFiles
    /\ gidx' = 0
    /\ gpc' = "loop"
    /\ steps' = <<"start">>
    /\ gen_result' = <<>>
    /\ UNCHANGED ref
    /\ UNCHANGED notGen

\* lines 24-45: one iteration of the loop over schema['tables']
GenTable ==
    /\ gpc = "loop"
    /\ gidx < Len(schema)
    /\ LET after == LoopBody([files |-> files, progress |-> progress],
                             progress_callback, gidx, schema)
       IN  /\ files' = after.files
           /\ progress' = after.progress
    /\ gidx' = gidx + 1
    /\ steps' = Append(steps, "table")
    /\ UNCHANGED <<schema, connection_string, progress_callback, table_groups, gpc,
                   gen_result, ref>>
    /\ UNCHANGED notGen

\* lines 47-48: the loop is over; the report before the schema-wide artifacts
GenCheckpoint ==
    /\ gpc = "loop"
    /\ gidx = Len(schema)
    /\ progress' = Report(progress, progress_callback, 80, files)
    /\ gpc' = "schema_wide"
    /\ steps' = Append(steps, "checkpoint")
    /\ UNCHANGED <<schema, connection_string, progress_callback, table_groups, files, gidx,
                   gen_result, ref>>
    /\ UNCHANGED notGen

\* lines 50-72: the schema-wide artifacts
GenSchemaWide ==
    /\ gpc = "schema_wide"
    /\ files' = AddAll(files, SchemaWideArtifacts(schema, connection_string), 1)
    /\ gpc' = "complete"
    /\ steps' = Append(steps, "schema_wide")
    /\ UNCHANGED <<schema, connection_string, progress_callback, table_groups, gidx,
                   progress, gen_result, ref>>
    /\ UNCHANGED notGen

\* lines 74-77: the last report, and return files
GenComplete ==
    /\ gpc = "complete"
    /\ progress' = Report(progress, progress_callback, 100, files)
    /\ gen_result' = <<files>>
    /\ gpc' = "returned"
    /\ steps' = Append(steps, "complete")
    /\ UNCHANGED <<schema, connection_string, progress_callback, table_groups, files, gidx,
                   ref>>
    /\ UNCHANGED notGen

\* a generator that catches the exception, makes the last report and returns
\* the map as far as it got
GenRaiseSwallowed ==
    /\ \/ /\ gpc = "loop"
          /\ gidx < Len(schema)
          /\ \E k \in 0..(Len(ArtifactKinds) - 1) :
                files' = AddAll(files,
                                [j \in 1..k |->
                                    [path |-> ArtifactPath(ArtifactKinds[j],
                                                  _prepare_table_data(schema[gidx + 1])
                                                      .TableNamePascal),
                                     content |-> ArtifactContent(ArtifactKinds[j],
                                                                 schema[gidx + 1])]],
                                1)
          /\ progress' = Report(Report(progress, progress_callback,
                                       TablePercent(gidx, Len(schema)), files),
                                progress_callback, 100, files')
       \/ /\ gpc = "schema_wide"
          /\ LET entries == SchemaWideArtifacts(schema, connection_string)
             IN  \E k \in 0..(Len(entries) - 1) :
                    /\ entries[k + 1].content.template # "literal"
                    /\ files' = AddAll(files, SubSeq(entries, 1, k), 1)
          /\ progress' = Report(progress, progress_callback, 100, files')
    /\ gen_result' = <<files'>>
    /\ gpc' = "returned"
    /\ steps' = Append(steps, "raised")
    /\ UNCHANGED <<schema, connection_string, progress_callback, table_groups, gidx, ref>>
    /\ UNCHANGED notGen

\* a call inside generate_application raises and nothing catches it (there is
\* no try in lines 14-77): in an iteration of the loop, after its report,
\* _prepare_table_data or one of the nine renderers, with the artifacts of the
\* table assigned before it in the map; or one of the renderers of lines 50-72,
\* with the entries assigned before it in the map.  The exception reaches the
\* caller, which receives no map.
GenRaise ==
    /\ \/ /\ gpc = "loop"
          /\ gidx < Len(schema)
          /\ \E k \in 0..(Len(ArtifactKinds) - 1) :
                files' = AddAll(files,
                                [j \in 1..k |->
                                    [path |-> ArtifactPath(ArtifactKinds[j],
                                                  _prepare_table_data(schema[gidx + 1])
                                                      .TableNamePascal),
                                     content |-> ArtifactContent(ArtifactKinds[j],
                                                                 schema[gidx + 1])]],
                                1)
          /\ progress' = Report(progress, progress_callback,
                                TablePercent(gidx, Len(schema)), files)
       \/ /\ gpc = "schema_wide"
          /\ LET entries == SchemaWideArtifacts(schema, connection_string)
             IN  \E k \in 0..(Len(entries) - 1) :
                    /\ entries[k + 1].content.template # "literal"
                    /\ files' = AddAll(files, SubSeq(entries, 1, k), 1)
          /\ UNCHANGED progress
    /\ gpc' = "raised"
    /\ steps' = Append(steps, "raised")
    /\ UNCHANGED <<schema, connection_string, progress_callback, table_groups, gidx,
                   gen_result, ref>>
    /\ UNCHANGED notGen

\* the caller is done with the run: its arguments and locals are gone; the run may
\* be the one later runs are compared with
GenDismiss ==
    /\ gpc = "returned"
    /\ \/ ref' = ThisRun
       \/ ref' = RefAfterThisRun
    /\ gpc' = "idle"
    /\ schema' = <<>> /\ connection_string' = <<>> /\ progress_callback' = FALSE
    /\ table_groups' = <<>>
    /\ gidx' = 0
    /\ progress' = <<>> /\ steps' = <<>>
    /\ files' = <<>>
    /\ gen_result' = <<>>
    /\ UNCHANGED notGen

(***************************************************************************)
(* _prepare_table_data on the tables the reader can produce                *)
(***************************************************************************)
MaxColumns == 2

ViewColumnRows ==
    {ColumnRow(n, t[1], t[2], <<>>, <<>>, <<>>) :
        n \in {N_id, N_user_id, N_email}, t \in {<<T_integer, "NO">>, <<T_text, "YES">>}}

\* the rows of a table have distinct column names
ViewColumnLists ==
    {cs \in DistinctSeqs(ViewColumnRows, MaxColumns) :
        \A i, j \in 1..Len(cs) : i # j => cs[i].column_name # cs[j].column_name}

\* a table and its primary key: some of its columns, in any key order
ViewCatalogEntries ==
    UNION {{[table_schema |-> "public", table_name |-> N_order_items, columns |-> cs,
             primary_keys |-> pk, foreign_keys |-> <<>>] :
                pk \in DistinctSeqs({cs[i].column_name : i \in 1..Len(cs)}, Len(cs))} :
           cs \in ViewColumnLists}

\* table_data = self._prepare_table_data(table)
PrepareTableData ==
    /\ table_data = <<>>
    /\ table_data' = <<_prepare_table_data(table)>>
    /\ UNCHANGED table
    /\ UNCHANGED notView

(***************************************************************************)
(* The naming functions applied to bounded identifiers                     *)
(***************************************************************************)
RECURSIVE StringsUpTo(_)
StringsUpTo(n) ==
    IF n = 0 THEN {<<>>}
    ELSE LET shorter == StringsUpTo(n - 1)
         IN  shorter \cup {Append(s, c) : s \in {t \in shorter : Len(t) = n - 1}, c \in Chars}

Identifiers == StringsUpTo(MaxLen)

\* the composition of the case round trip: toPascal, toSnake, toPascal
RoundTrip == <<"pascal_case", "snake_case", "pascal_case">>

ApplyPascal ==
    /\ Len(applied) < Len(RoundTrip)
    /\ acc' = pascal_case(acc)
    /\ applied' = Append(applied, "pascal_case")
    /\ UNCHANGED text
    /\ UNCHANGED notNaming

ApplySnake ==
    /\ Len(applied) < Len(RoundTrip)
    /\ acc' = snake_case(acc)
    /\ applied' = Append(applied, "snake_case")
    /\ UNCHANGED text
    /\ UNCHANGED notNaming

ApplyCamel ==
    /\ Len(applied) < Len(RoundTrip)
    /\ acc' = camel_case(acc)
    /\ applied' = Append(applied, "camel_case")
    /\ UNCHANGED text
    /\ UNCHANGED notNaming


(***************************************************************************)
(* The type mappers applied to type strings: a type name, known to the     *)
(* mapping tables or not, followed or not by a qualifier, in three casings *)
(***************************************************************************)
\* names none of the mapping tables holds; the last one is the empty string
UnknownTypeNames == {<<"c", "i", "t", "e", "x", "t">>, <<"x", "m", "l">>, <<>>}
TypeNames ==
    {CSharpTypeMapping[i][1] : i \in 1..Len(CSharpTypeMapping)}
        \cup {PythonTypeMapping[i][1] : i \in 1..Len(PythonTypeMapping)}
        \cup {SqlalchemyTypeMapping[i][1] : i \in 1..Len(SqlalchemyTypeMapping)}
        \cup UnknownTypeNames

\* what may follow the type name: nothing, (n), (p,s), the same after a blank,
\* and a parenthesis that is never closed
Qualifiers == {<<>>, <<"(", "2", "5", "5", ")">>, <<"(", "1", "0", ",", "2", ")">>,
               <<" ", "(", "3", ")">>, <<"(">>}

Casings == {"lower", "upper", "capitalized"}
Cased(s, casing) ==
    CASE casing = "lower" -> s
      [] casing = "upper" -> [i \in 1..Len(s) |-> UpperOf(s[i])]
      [] casing = "capitalized" -> Capitalize(s)

TypeStrings == {Cased(t \o q, c) : t \in TypeNames, q \in Qualifiers, c \in Casings}

MapToCSharp ==
    /\ mapped.csharp = <<>>
    /\ mapped' = [mapped EXCEPT !.csharp = <<map_postgres_to_csharp(pg_type, nullable)>>]
    /\ UNCHANGED <<pg_type, nullable>>
    /\ UNCHANGED notType

MapToPython ==
    /\ mapped.python = <<>>
    /\ mapped' = [mapped EXCEPT !.python = <<map_postgres_to_python(pg_type, nullable)>>]
    /\ UNCHANGED <<pg_type, nullable>>
    /\ UNCHANGED notType

MapToSqlalchemy ==
    /\ mapped.sqlalchemy = <<>>
    /\ mapped' =
           [mapped EXCEPT !.sqlalchemy = <<map_postgres_to_sqlalchemy(pg_type, nullable)>>]
    /\ UNCHANGED <<pg_type, nullable>>
    /\ UNCHANGED notType

(***************************************************************************)
(* normalize_connection_string applied, and applied again to its result, to *)
(* connection strings put together from pieces                             *)
(***************************************************************************)
MaxPieces == 3
MaxNormalize == 2

\* the pieces: the two URL schemes, what follows a scheme with and without a
\* port, key-value pairs as Npgsql writes them, and a word that is neither
ConnectionPieces == {
    <<"p", "o", "s", "t", "g", "r", "e", "s", "q", "l", ":", "/", "/">>,
    <<"p", "o", "s", "t", "g", "r", "e", "s", "q", "l", "+", "a", "s", "y", "n", "c", "p", "g", ":", "/", "/">>,
    <<"u", ":", "p", "@", "h", ":", "5", "4", "3", "2", "/", "d">>,
    <<"u", ":", "p", "@", "h", "/", "d">>,
    <<"H", "o", "s", "t", "=", "h", ";">>,
    <<"P", "a", "s", "s", "w", "o", "r", "d", "=">>,
    <<"s", "e", "r", "v", "e", "r", "=", "s">>,
    <<" ", "D", "a", "t", "a", "b", "a", "s", "e", " ", "=", " ", "d", " ", ";">>,
    <<"x">>,
    <<";">>}
ConnectionInputs ==
    {Flatten(ps) : ps \in UNION {[1..n -> ConnectionPieces] : n \in 0..MaxPieces}}
TargetFrameworks == {<<"d", "o", "t", "n", "e", "t">>, <<"f", "a", "s", "t", "a", "p", "i">>, <<"F", "a", "s", "t", "A", "P", "I">>}

Normalize ==
    /\ Len(normalized) < MaxNormalize
    /\ normalized' =
          Append(normalized,
                 normalize_connection_string(
                     IF normalized = <<>> THEN dsn ELSE normalized[Len(normalized)],
                     target))
    /\ UNCHANGED <<dsn, target>>
    /\ UNCHANGED notConn

(***************************************************************************)
(* The grouping page of main (app.py): the selection of ungrouped tables,  *)
(* the two ways of assigning the selection to a group, the removal of a    *)
(* group, and the mapping a generating run builds from the groups          *)
(***************************************************************************)
\* lines 282-286: what the user can have typed into 'New Group Name'
GroupNames == {<<>>, G_Sales, G_General, <<"a", " ", "b">>, <<"a", "\t", "b">>}

\* lines 188-193: the names of the tables that are in no group, in schema order
ungrouped_tables(groups, schema_tables) ==
    LET names == [i \in 1..Len(schema_tables) |-> schema_tables[i].name]
    IN  SelectSeq(names, LAMBDA n : ~InSomeGroup(groups, n))

\* list.remove(x) on a list that holds x: the first occurrence goes
ListRemove(list, x) ==
    LET at == CHOOSE i \in 1..Len(list) : list[i] = x /\ \A j \in 1..(i - 1) : list[j] # x
    IN  SubSeq(list, 1, at - 1) \o SubSeq(list, at + 1, Len(list))

\* the loop of lines 268-274 without the tests of lines 269 and 272: every
\* selected table is appended to the group
RECURSIVE AssignSelectedAppending(_, _, _, _)
AssignSelectedAppending(groups, group, selected, k) ==
    IF k > Len(selected) THEN groups
    ELSE AssignSelectedAppending(
            [i \in 1..Len(groups) |->
                IF groups[i].group = group
                THEN [group |-> group, tables |-> Append(groups[i].tables, selected[k])]
                ELSE groups[i]],
            group, selected, k + 1)

\* lines 268-274 and 298-304: a selected table the group does not hold yet is
\* removed from every other group that holds it and appended to the group
RECURSIVE AssignSelected(_, _, _, _)
AssignSelected(groups, group, selected, k) ==
    IF k > Len(selected) THEN groups
    ELSE LET t == selected[k]
             into == groups[CHOOSE i \in 1..Len(groups) : groups[i].group = group].tables
             held(list) == \E m \in 1..Len(list) : list[m] = t
         IN  IF held(into) THEN AssignSelected(groups, group, selected, k + 1)
             ELSE AssignSelected(
                    [i \in 1..Len(groups) |->
                        IF groups[i].group = group
                        THEN [group |-> group, tables |-> Append(groups[i].tables, t)]
                        ELSE IF held(groups[i].tables)
                             THEN [group |-> groups[i].group,
                                   tables |-> ListRemove(groups[i].tables, t)]
                             ELSE groups[i]],
                    group, selected, k + 1)

\* lines 228-238: the checkbox of an ungrouped table is ticked or unticked
ToggleTable ==
    /\ \E i \in 1..Len(ui_schema) :
        LET name == ui_schema[i].name
        IN  /\ ~InSomeGroup(session_table_groups, name)
            /\ selected_tables' =
                  IF \E m \in 1..Len(selected_tables) : selected_tables[m] = name
                  THEN ListRemove(selected_tables, name)
                  ELSE Append(selected_tables, name)
    /\ all_groups' = <<>>
    /\ UNCHANGED <<ui_schema, session_table_groups>>
    /\ UNCHANGED notUi

\* lines 198-199: 'Select All Ungrouped'
SelectAllUngrouped ==
    /\ selected_tables' = ungrouped_tables(session_table_groups, ui_schema)
    /\ all_groups' = <<>>
    /\ UNCHANGED <<ui_schema, session_table_groups>>
    /\ UNCHANGED notUi

\* lines 201-202: 'Clear Selection'
ClearSelection ==
    /\ selected_tables' = <<>>
    /\ all_groups' = <<>>
    /\ UNCHANGED <<ui_schema, session_table_groups>>
    /\ UNCHANGED notUi

\* lines 248-278: 'Assign to Selected Group' with a group of the select box
AssignToExisting ==
    /\ selected_tables # <<>>
    /\ session_table_groups # <<>>
    /\ \E g \in 1..Len(session_table_groups) :
        session_table_groups' =
            AssignSelected(session_table_groups, session_table_groups[g].group,
                           selected_tables, 1)
    /\ selected_tables' = <<>>
    /\ all_groups' = <<>>
    /\ UNCHANGED ui_schema
    /\ UNCHANGED notUi

\* lines 248, 281-308: 'Create Group & Assign' with the name typed.  A name with
\* a space in it is replaced by None (lines 289-291), and the button is offered
\* for a name that is neither None nor empty (line 293)
CreateGroupAndAssign ==
    /\ selected_tables # <<>>
    /\ \E typed \in GroupNames :
        LET group_name == IF typed # <<>> /\ (\E i \in 1..Len(typed) : typed[i] = " ")
                          THEN None ELSE typed
            created == IF \E g \in 1..Len(session_table_groups) :
                              session_table_groups[g].group = group_name
                       THEN session_table_groups
                       ELSE Append(session_table_groups,
                                   [group |-> group_name, tables |-> <<>>])
        IN  /\ group_name # None
            /\ group_name # <<>>
            /\ session_table_groups' = AssignSelected(created, group_name, selected_tables, 1)
    /\ selected_tables' = <<>>
    /\ all_groups' = <<>>
    /\ UNCHANGED ui_schema
    /\ UNCHANGED notUi

\* lines 311-320: 'Remove Group' of one of the groups shown
RemoveGroup ==
    /\ \E g \in 1..Len(session_table_groups) :
        session_table_groups' =
            SubSeq(session_table_groups, 1, g - 1)
                \o SubSeq(session_table_groups, g + 1, Len(session_table_groups))
    /\ all_groups' = <<>>
    /\ UNCHANGED <<ui_schema, selected_tables>>
    /\ UNCHANGED notUi

\* lines 350, 359-368: 'Generate Application' builds all_groups from the groups
\* of the session
PrepareGroups ==
    /\ all_groups' = <<AllGroups(session_table_groups, ui_schema)>>
    /\ UNCHANGED <<ui_schema, session_table_groups, selected_tables>>
    /\ UNCHANGED notUi

(***************************************************************************)
(* Properties of read_schema                                               *)
(***************************************************************************)
\* C1: whenever control is with the caller of read_schema (before a call, after a
\* return, after a raise), no connection and no cursor the reader opened is open
ReadSchemaReleasesConnection ==
    rpc = "idle" => open_conns = {} /\ open_cursors = {}

\* a call that opened its connection and cursor, read a table, failed on a
\* later query and is back with the caller
ReadSchemaFailedMidWalk ==
    /\ rpc = "idle"
    /\ outcome = "raised"
    /\ schema_data # <<>>
    /\ self_conn = n_conns /\ self_cursor = n_cursors
    /\ \E i \in 1..Len(queries) : queries[i][1] = self_conn

\* C2: a call in which anything failed raises and hands no schema to the caller;
\* a schema handed over holds every table of the catalog, in the catalog's order
ReadSchemaAllOrNothing ==
    /\ outcome = "raised" => result = <<>>
    /\ result # <<>> =>
        /\ outcome = "returned"
        /\ result[1].tables = [i \in 1..Len(db) |-> TableOf(db[i])]

\* a metadata query of the second table failed after the first table was read
ReadSchemaFailedOnSecondTable ==
    /\ outcome = "raised"
    /\ Len(schema_data) = 1
    /\ Len(db) = 2
    /\ queries # <<>>
    /\ queries[Len(queries)][3] = 2

\* the type strings C18 allows for a row: a character type with a maximum
\* length as its name, or varchar for character varying, followed by (length);
\* numeric with a precision and a scale as numeric(precision,scale); any other
\* row as its data_type
AllowedTypeStrings(row) ==
    IF /\ row.data_type \in {T_character_varying, T_character}
       /\ row.character_maximum_length # <<>>
    THEN {name \o <<"(">> \o row.character_maximum_length[1] \o <<")">> :
             name \in {row.data_type}
                        \cup (IF row.data_type = T_character_varying THEN {T_varchar} ELSE {})}
    ELSE IF row.data_type = T_numeric /\ row.numeric_precision # <<>>
                                          /\ row.numeric_scale # <<>>
         THEN {T_numeric \o <<"(">> \o row.numeric_precision[1] \o <<",">>
                         \o row.numeric_scale[1] \o <<")">>}
         ELSE {row.data_type}

\* C18: the columns _get_columns returns carry, for a character type with a
\* maximum length, the type name followed by (length); for a numeric type with
\* a precision and a scale, scale 0 included, numeric(precision,scale); and the
\* data_type of the row unchanged otherwise.
ColumnTypesParametrized ==
    rpc = "get_primary_keys" =>
        /\ Len(columns) = Len(db[tidx].columns)
        /\ \A i \in 1..Len(columns) :
              columns[i].data_type \in AllowedTypeStrings(db[tidx].columns[i])

\* C20: in every table _get_table_info has returned, a column is flagged
\* is_primary_key exactly when its name is in the table's primary-key list and
\* is_foreign_key exactly when a foreign key of the table has it as source
\* column; a flagged column's foreign_key_info is the referenced table and
\* column of one of its foreign keys, and an unflagged one's is None.
CrossLinksMatchKeys ==
    \A k \in 1..Len(schema_data) :
        LET tbl == schema_data[k]
        IN  \A i \in 1..Len(tbl.columns) :
                LET col == tbl.columns[i]
                    mine == {j \in 1..Len(tbl.foreign_keys) :
                                tbl.foreign_keys[j].column = col.name}
                IN  /\ col.is_primary_key <=>
                          \E j \in 1..Len(tbl.primary_keys) : tbl.primary_keys[j] = col.name
                    /\ col.is_foreign_key <=> mine # {}
                    /\ IF mine = {} THEN col.foreign_key_info = None
                       ELSE \E j \in mine :
                               col.foreign_key_info =
                                   [referenced_table |-> tbl.foreign_keys[j].referenced_table,
                                    referenced_column |-> tbl.foreign_keys[j].referenced_column]

\* two tables have been read: one whose only column is a foreign key and no
\* primary key, and one whose first column is primary key and the source of two
\* foreign keys
KeyedTablesRead ==
    /\ Len(schema_data) = 2
    /\ \E k \in 1..2 :
          /\ Len(schema_data[k].columns) = 1
          /\ schema_data[k].primary_keys = <<>>
          /\ schema_data[k].columns[1].is_foreign_key
    /\ \E k \in 1..2 :
          /\ Len(schema_data[k].foreign_keys) = 2
          /\ schema_data[k].columns[1].is_primary_key
          /\ schema_data[k].columns[1].is_foreign_key

\* the queries of a complete read of n tables on connection conn: the table
\* list, then columns, primary keys and foreign keys of table 1, of table 2, ...
QueriesOfRead(conn, n) ==
    <<<<conn, "tables", 0>>>> \o
    [j \in 1..(3 * n) |->
        <<conn,
          CASE (j - 1) % 3 = 0 -> "columns"
            [] (j - 1) % 3 = 1 -> "primary_keys"
            [] (j - 1) % 3 = 2 -> "foreign_keys",
          ((j - 1) \div 3) + 1>>]

\* C21: the calls of read_schema made so far have opened at most one connection
\* each; the queries of the running or last call are, in order, the table-list
\* query and then, table by table, the column, primary-key and foreign-key
\* query, all of them of a call that returned and the first ones of a call that
\* raised; each was issued on the connection the call opened, while open, and a
\* call that returned opened one and has closed it.
OneRoundTripPerQuery ==
    /\ n_conns <= calls
    /\ queries # <<>> =>
          /\ Len(queries) <= 1 + 3 * Len(db)
          /\ queries = SubSeq(QueriesOfRead(self_conn, Len(db)), 1, Len(queries))
          /\ self_conn = n_conns
          /\ rpc # "idle" => self_conn \in open_conns
    /\ (rpc = "idle" /\ outcome = "returned") =>
          /\ queries = QueriesOfRead(self_conn, Len(db))
          /\ self_conn = n_conns
          /\ self_conn \notin open_conns

\* a second call of read_schema on a catalog of two tables has returned
TwoTablesReadAgain ==
    /\ rpc = "idle" /\ outcome = "returned"
    /\ calls = 2 /\ n_conns = 2
    /\ Len(db) = 2 /\ Len(queries) = 7

(***************************************************************************)
(* Properties of generate_application                                      *)
(***************************************************************************)
\* the number of reports a run with a callback has made at each point of it
ReportsDue ==
    CASE gpc = "idle" -> 0
      [] gpc = "loop" -> 1 + gidx
      [] gpc \in {"schema_wide", "complete"} -> Len(schema) + 2
      [] gpc = "returned" -> Len(schema) + 3

\* the percentage of the i-th report of a run over total_tables tables
ExpectedPercent(i, total_tables) ==
    IF i = 1 THEN 0
    ELSE IF i <= total_tables + 1 THEN ((i - 2) * 70) \div total_tables
    ELSE IF i = total_tables + 2 THEN 80
    ELSE 100

\* C3: within a run with a callback, for every table count, the reported percentages
\* are integers in 0..100 and never decrease: 0 first, then the integer part of
\* idx * 70 / N for each table in schema order, then 80 while no schema-wide artifact
\* is in the map yet, then 100 last, when the map holds every artifact it is
\* returned with; a run without a callback reports nothing
ProgressFollowsCheckpoints ==
    /\ ~progress_callback => progress = <<>>
    /\ progress_callback =>
        /\ Len(progress) = ReportsDue
        /\ \A i \in 1..Len(progress) :
            /\ progress[i].percent \in 0..100
            /\ progress[i].percent = ExpectedPercent(i, Len(schema))
        /\ \A i \in 1..(Len(progress) - 1) : progress[i].percent <= progress[i + 1].percent
        /\ gpc = "schema_wide" =>
            /\ progress[Len(progress)].nfiles = Len(files)
            /\ Paths(files) \cap SchemaWidePaths = {}
        /\ gpc = "returned" =>
            /\ progress[Len(progress)].nfiles = Len(gen_result[1])
            /\ SchemaWidePaths \subseteq Paths(gen_result[1])

\* a run over two tables with a callback has returned: 0, 0, 35, 80, 100
ProgressReportedForTwoTables ==
    /\ gpc = "returned"
    /\ progress_callback
    /\ Len(schema) = 2
    /\ [i \in 1..Len(progress) |-> progress[i].percent] = <<0, 0, 35, 80, 100>>

AllPerTablePaths(tbls) == UNION {PerTablePaths(tbls[i]) : i \in 1..Len(tbls)}

\* C5: a run returns the map a remembered run on the same schema and connection
\* string returned, paths in the same order and contents included, whatever ran in
\* between; and every path of the map is one the run's own arguments give
RepeatedRunsAgree ==
    /\ (/\ gpc = "returned"
        /\ ref # None
        /\ ref.schema = schema
        /\ ref.connection_string = connection_string)
       => gen_result[1] = ref.files
    /\ gpc = "returned" =>
        Paths(gen_result[1]) \subseteq (AllPerTablePaths(schema) \cup SchemaWidePaths)

\* a run has returned on the arguments of the remembered run, after runs on other
\* schemas in between
RunRepeatedAfterOtherSchemas ==
    /\ gpc = "returned"
    /\ ref # None
    /\ ref.schema = schema
    /\ ref.connection_string = connection_string
    /\ ref.then_others
    /\ schema # <<>>

\* the entries of a map that are not schema-wide artifacts
PerTableEntries(fs) == {k \in 1..Len(fs) : fs[k].path \notin SchemaWidePaths}

\* C6: the map a run returns holds nine per-table paths for each table, no path
\* belongs to two tables of the schema, and the per-table entries are 9 * N
PerTablePathsBelongToOneTable ==
    gpc = "returned" =>
        /\ \A i \in 1..Len(schema) :
            /\ Cardinality(PerTablePaths(schema[i])) = Len(ArtifactKinds)
            /\ PerTablePaths(schema[i]) \subseteq Paths(gen_result[1])
        /\ \A i, j \in 1..Len(schema) :
            i # j => PerTablePaths(schema[i]) \cap PerTablePaths(schema[j]) = {}
        /\ Cardinality(PerTableEntries(gen_result[1])) = Len(ArtifactKinds) * Len(schema)

\* the groups of the mapping that hold a table name
GroupsOf(groups, name) ==
    {groups[g].group : g \in {h \in 1..Len(groups) :
        \E k \in 1..Len(groups[h].tables) : groups[h].tables[k] = name}}

\* whether a path has the segment of a group: the group's name between two "/"
UnderGroup(path, group) == Contains(path, <<"/">> \o group \o <<"/">>)

\* C7: in the map a run returns, every per-table path of a table has the segment
\* of the group the mapping assigns the table to (General for a table the user
\* put in no group), and the segment of no other group of the mapping
PathsNestedUnderGroup ==
    gpc = "returned" =>
        \A i \in 1..Len(schema) :
            \A path \in PerTablePaths(schema[i]) \cap Paths(gen_result[1]) :
                \A g \in 1..Len(table_groups) :
                    UnderGroup(path, table_groups[g].group)
                        <=> table_groups[g].group \in GroupsOf(table_groups, schema[i].name)

\* C22: when a view-building or rendering call raises inside
\* generate_application, the call raises: the caller receives no map, complete
\* or partial, and no report of 100 percent was made in that run; a map is
\* received only from a run in which nothing raised.
RaisingRunReturnsNothing ==
    /\ gpc = "raised" =>
          /\ gen_result = <<>>
          /\ \A i \in 1..Len(progress) : progress[i].percent # 100
    /\ gen_result # <<>> =>
          /\ gpc = "returned"
          /\ \A i \in 1..Len(steps) : steps[i] # "raised"

\* a run with a callback over two tables raised in a renderer of lines 50-72,
\* when schema-wide artifacts were already in the map
RaisedAmongSchemaWide ==
    /\ gpc = "raised"
    /\ progress_callback
    /\ Len(schema) = 2
    /\ Paths(files) \cap SchemaWidePaths # {}

(***************************************************************************)
(* Properties of _prepare_table_data                                       *)
(***************************************************************************)
\* C8: the view of a table none of whose columns is flagged as primary key, a
\* table without columns included, has a PrimaryKey that is not None: the surrogate
\* id of type int, flagged IsPrimaryKey
KeylessTableGetsSurrogate ==
    (/\ table_data # <<>>
     /\ \A i \in 1..Len(table.columns) : ~table.columns[i].is_primary_key)
    => /\ table_data[1].PrimaryKey # None
       /\ table_data[1].PrimaryKey.Name = N_id
       /\ table_data[1].PrimaryKey.CSharpType = S_int
       /\ table_data[1].PrimaryKey.IsPrimaryKey

\* C15: in the view of a table, PrimaryKey is the view of the first column, in
\* column order, that is flagged as primary key; NonPrimaryColumns holds the
\* views of the columns that are not flagged, in column order; and a column is
\* flagged exactly when its view is not in NonPrimaryColumns.
PrimaryKeyIsFirstFlagged ==
    table_data # <<>> =>
        LET view == table_data[1]
            cols == table.columns
            Flagged(name) ==
                \E i \in 1..Len(cols) : cols[i].name = name /\ cols[i].is_primary_key
        IN  /\ Len(view.Columns) = Len(cols)
            /\ \A i \in 1..Len(cols) :
                  /\ view.Columns[i].Name = cols[i].name
                  /\ (cols[i].is_primary_key /\ \A j \in 1..(i - 1) : ~cols[j].is_primary_key)
                        => view.PrimaryKey = view.Columns[i]
                  /\ cols[i].is_primary_key <=>
                        ~ \E k \in 1..Len(view.NonPrimaryColumns) :
                              view.NonPrimaryColumns[k] = view.Columns[i]
            /\ view.NonPrimaryColumns = SelectSeq(view.Columns, LAMBDA v : ~Flagged(v.Name))

\* the view of a table with two columns has been built, both columns flagged
\* as primary key
CompositeKeyViewBuilt ==
    /\ table_data # <<>>
    /\ Len(table.columns) = 2
    /\ \A i \in 1..2 : table.columns[i].is_primary_key

\* C16: in the view of a table with primary keys, PrimaryKey is the view of the
\* column named primary_keys[0], the first column of the key in key order, also
\* when the key order is not the column order; its C# type is the one
\* get_primary_key_type gives for the table.
PrimaryKeyIsFirstOfKey ==
    (table_data # <<>> /\ table.primary_keys # <<>>) =>
        /\ table_data[1].PrimaryKey.Name = table.primary_keys[1]
        /\ table_data[1].PrimaryKey.CSharpType =
              get_primary_key_type(table.columns, table.primary_keys)

(***************************************************************************)
(* Properties of the naming functions                                      *)
(***************************************************************************)
\* C9: for every identifier s, pascal_case(snake_case(pascal_case(s))) is
\* pascal_case(s)
PascalSnakeRoundTrip ==
    applied = RoundTrip => acc = pascal_case(text)

IsAlphanumeric(s) == \A i \in 1..Len(s) : IsUpper(s[i]) \/ IsLower(s[i]) \/ IsDigit(s[i])

\* capitalized words run together: UserName, Id
IsPascalCase(s) == s # <<>> /\ IsUpper(s[1]) /\ IsAlphanumeric(s)

\* a lower-case word, then capitalized words: userName, id
IsCamelCase(s) == s # <<>> /\ IsLower(s[1]) /\ IsAlphanumeric(s)

\* lower-case words joined by single underscores: user_name, id
IsSnakeCase(s) ==
    /\ s # <<>>
    /\ IsLower(s[1])
    /\ s[Len(s)] # "_"
    /\ \A i \in 1..Len(s) : IsLower(s[i]) \/ IsDigit(s[i]) \/ s[i] = "_"
    /\ \A i \in 1..(Len(s) - 1) : ~(s[i] = "_" /\ s[i + 1] = "_")

\* C10: pascal_case returns a Pascal-case identifier unchanged, camel_case a
\* camel-case identifier, snake_case a snake-case identifier
NamingKeepsOwnCase ==
    /\ (applied = <<"pascal_case">> /\ IsPascalCase(text)) => acc = text
    /\ (applied = <<"camel_case">> /\ IsCamelCase(text)) => acc = text
    /\ (applied = <<"snake_case">> /\ IsSnakeCase(text)) => acc = text

\* the words of s, each with its first character upper-cased and its other
\* characters as they are, joined without the separators
RECURSIVE WordsUpperFirst(_, _)
WordsUpperFirst(s, at_word_start) ==
    IF s = <<>> THEN <<>>
    ELSE IF Head(s) \in SepChars THEN WordsUpperFirst(Tail(s), TRUE)
    ELSE <<IF at_word_start THEN UpperOf(Head(s)) ELSE Head(s)>>
             \o WordsUpperFirst(Tail(s), FALSE)

\* C14: pascal_case upper-cases the first character of every word of its
\* argument and leaves the other characters of the word as they are: it does
\* not lower-case them.
PascalKeepsWordTails ==
    applied = <<"pascal_case">> => acc = WordsUpperFirst(text, TRUE)

(***************************************************************************)
(* Properties of the type mappers                                          *)
(***************************************************************************)
Mappers == {"csharp", "python", "sqlalchemy"}
Text_csharp == <<"s", "t", "r", "i", "n", "g">>
Text_python == <<"s", "t", "r">>
Text_python_optional == <<"O", "p", "t", "i", "o", "n", "a", "l", "[", "s", "t", "r", "]">>
Text_sqlalchemy == <<"S", "t", "r", "i", "n", "g">>

Type_bytea == <<"b", "y", "t", "e", "a">>
ExemptIn(plain_of_text, plain_of_bytea, plain) == plain \in {plain_of_text, plain_of_bytea}

\* C12: for the C# and the Python mapper and every type t of the mapper's table,
\* the result for a nullable column is the result for a non-nullable one with
\* the target's nullability idiom around it (T? in C#, Optional[T] in Python),
\* except for the textual and raw-binary types, whose result is the same string
\* for both nullability values.
NullableFollowsIdiom ==
    \A t \in TypeNames \ UnknownTypeNames :
        (pg_type = t /\ nullable) =>
            /\ mapped.csharp # <<>> =>
                  LET plain == map_postgres_to_csharp(t, FALSE)
                  IN  mapped.csharp[1] =
                        IF ExemptIn(map_postgres_to_csharp(T_text, FALSE),
                                    map_postgres_to_csharp(Type_bytea, FALSE), plain)
                        THEN plain
                        ELSE plain \o <<"?">>
            /\ mapped.python # <<>> =>
                  LET plain == map_postgres_to_python(t, FALSE)
                  IN  mapped.python[1] =
                        IF ExemptIn(map_postgres_to_python(T_text, FALSE),
                                    map_postgres_to_python(Type_bytea, FALSE), plain)
                        THEN plain
                        ELSE <<"O", "p", "t", "i", "o", "n", "a", "l", "[">> \o plain \o <<"]">>

\* C17: for every type name t, every qualifier q in parentheses and every
\* casing, the C# mapper and the Python mapper return for t followed by q, in
\* that casing, what they return for t alone; varchar(n) and numeric(p,s), the
\* strings the reader puts together, are among them.
QualifierIsInvisible ==
    \A t \in TypeNames, q \in Qualifiers, c \in Casings :
        (Len(pg_type) = Len(t) + Len(q) /\ pg_type = Cased(t \o q, c)) =>
            /\ mapped.csharp # <<>> => mapped.csharp[1] = map_postgres_to_csharp(t, nullable)
            /\ mapped.python # <<>> => mapped.python[1] = map_postgres_to_python(t, nullable)

\* NUMERIC(10,2) of a nullable column has gone through the C# and the Python mapper
QualifiedTypeMapped ==
    /\ pg_type = <<"N", "U", "M", "E", "R", "I", "C", "(", "1", "0", ",", "2", ")">>
    /\ nullable
    /\ mapped.csharp # <<>>
    /\ mapped.python # <<>>

BoundedCharacterTypes ==
    {<<"v", "a", "r", "c", "h", "a", "r">>, <<"c", "h", "a", "r">>,
     <<"c", "h", "a", "r", "a", "c", "t", "e", "r", " ", "v", "a", "r", "y", "i", "n", "g">>, <<"c", "h", "a", "r", "a", "c", "t", "e", "r">>}

\* C19: the column mapper gives for each of varchar, character varying, char and
\* character followed by a length, here (255), in any casing, a column type that
\* ends with that length in parentheses: the length is not dropped.
LengthCarriedForward ==
    \A t \in BoundedCharacterTypes, c \in Casings :
        (pg_type = Cased(t \o <<"(", "2", "5", "5", ")">>, c) /\ mapped.sqlalchemy # <<>>) =>
            LET column_type == mapped.sqlalchemy[1]
            IN  /\ Len(column_type) > 5
                /\ SubSeq(column_type, Len(column_type) - 4, Len(column_type))
                      = <<"(", "2", "5", "5", ")">>

(***************************************************************************)
(* Properties of normalize_connection_string                               *)
(***************************************************************************)
Url_dsn ==
    <<"p", "o", "s", "t", "g", "r", "e", "s", "q", "l", ":", "/", "/", "u", ":", "p", "@", "h", ":", "5", "4", "3", "2", "/", "d">>
Url_dsn_for_dotnet ==
    <<"h", "o", "s", "t", "=", "h", ";", "p", "o", "r", "t", "=", "5", "4", "3", "2", ";", "d", "a", "t", "a", "b", "a", "s", "e", "=", "d", ";", "u", "s", "e", "r", "n", "a", "m", "e", "=", "u", ";", "p", "a", "s", "s", "w", "o", "r", "d", "=", "p">>
Url_dsn_for_python ==
    <<"p", "o", "s", "t", "g", "r", "e", "s", "q", "l", "+", "a", "s", "y", "n", "c", "p", "g", ":", "/", "/", "u", ":", "p", "@", "h", ":", "5", "4", "3", "2", "/", "d">>
ForPython == target \in {<<"f", "a", "s", "t", "a", "p", "i">>,
                         <<"F", "a", "s", "t", "A", "P", "I">>}
\* a string in the idiom of the target: for Python a URL with the asyncpg
\* scheme, for .NET key-value pairs that start with the host
InTargetIdiom(s) ==
    IF ForPython
    THEN StartsWith(s, <<"p", "o", "s", "t", "g", "r", "e", "s", "q", "l", "+", "a", "s", "y", "n", "c", "p", "g", ":", "/", "/">>)
    ELSE \/ StartsWith(Lowered(s), <<"h", "o", "s", "t", "=">>)
         \/ StartsWith(Lowered(s), <<"s", "e", "r", "v", "e", "r", "=">>)
\* a string with neither a scheme nor a key-value pair in it
Unparseable(s) ==
    /\ ~ \E i \in 1..Len(s) : s[i] = "="
    /\ ~ Contains(s, <<":", "/", "/">>)

\* C13: for either target, normalization turns the URL
\* postgresql://u:p@h:5432/d into the target's idiom, returns a string that is
\* already in the target's idiom unchanged, returns a string it cannot parse
\* unchanged, and returns its own result unchanged when called on it again.
NormalizationSettles ==
    /\ (normalized # <<>> /\ dsn = Url_dsn) =>
          normalized[1] = IF ForPython THEN Url_dsn_for_python ELSE Url_dsn_for_dotnet
    /\ (normalized # <<>> /\ InTargetIdiom(dsn)) => normalized[1] = dsn
    /\ (normalized # <<>> /\ Unparseable(dsn)) => normalized[1] = dsn
    /\ Len(normalized) >= 2 => normalized[2] = normalized[1]

(***************************************************************************)
(* Properties of the grouping page                                         *)
(***************************************************************************)
\* C23: whatever grouping operations were made, a table name is in the table
\* list of at most one group of the session, and at most once in that list
TableInOneGroupOnce ==
    \A g, h \in 1..Len(session_table_groups) :
        \A k \in 1..Len(session_table_groups[g].tables) :
            \A m \in 1..Len(session_table_groups[h].tables) :
                session_table_groups[g].tables[k] = session_table_groups[h].tables[m]
                    => (g = h /\ k = m)

\* two tables of the same name were assigned to a group, which holds the name once
SameNamedTablesAssigned ==
    /\ Len(ui_schema) = 2
    /\ ui_schema[1].name = ui_schema[2].name
    /\ Len(session_table_groups) = 1
    /\ session_table_groups[1].tables = <<ui_schema[1].name>>
    /\ selected_tables = <<>>

\* the characters str.isspace() is true of, among those a name can be typed with
WhitespaceChars == {" ", "\t", "\n", "\r"}

\* C24: whatever grouping operations were made, every group name of the session
\* is non-empty and has no whitespace character in it
GroupNamesWithoutWhitespace ==
    \A g \in 1..Len(session_table_groups) :
        /\ session_table_groups[g].group # <<>>
        /\ \A i \in 1..Len(session_table_groups[g].group) :
              session_table_groups[g].group[i] \notin WhitespaceChars

\* C25: in the mapping a generating run builds, every table of the schema is in
\* exactly one group, and a table that is in no group of the session is under
\* General
HandedGroupsCoverSchema ==
    all_groups # <<>> =>
        \A i \in 1..Len(ui_schema) :
            LET name == ui_schema[i].name
                holding == {g \in 1..Len(all_groups[1]) :
                              \E k \in 1..Len(all_groups[1][g].tables) :
                                  all_groups[1][g].tables[k] = name}
            IN  /\ Cardinality(holding) = 1
                /\ ~InSomeGroup(session_table_groups, name) =>
                      \A g \in holding : all_groups[1][g].group = G_General

(***************************************************************************)
(* Specifications.  Each one runs one component; the variables of the      *)
(* other components keep the values they have before anything is called.   *)
(***************************************************************************)
\* the naming functions on bounded identifiers
NamingInit ==
    /\ text \in Identifiers
    /\ acc = text
    /\ applied = <<>>
    /\ db = <<>> /\ rpc = "idle"
    /\ self_conn = 0 /\ self_cursor = 0
    /\ open_conns = {} /\ open_cursors = {}
    /\ n_conns = 0 /\ n_cursors = 0
    /\ tables = <<>> /\ tidx = 0
    /\ columns = <<>> /\ primary_keys = <<>> /\ foreign_keys = <<>>
    /\ schema_data = <<>> /\ exc = FALSE
    /\ result = <<>> /\ outcome = "none"
    /\ calls = 0 /\ queries = <<>>
    /\ schema = <<>> /\ connection_string = <<>> /\ progress_callback = FALSE
    /\ table_groups = <<>>
    /\ files = <<>> /\ gidx = 0 /\ gpc = "idle"
    /\ progress = <<>> /\ steps = <<>>
    /\ gen_result = <<>>
    /\ ref = None
    /\ table = None /\ table_data = <<>>
    /\ pg_type = <<>> /\ nullable = FALSE
    /\ mapped = [csharp |-> <<>>, python |-> <<>>, sqlalchemy |-> <<>>]
    /\ dsn = <<>> /\ target = <<>> /\ normalized = <<>>
    /\ ui_schema = <<>> /\ session_table_groups = <<>>
    /\ selected_tables = <<>> /\ all_groups = <<>>

NamingNext == ApplyPascal \/ ApplySnake \/ ApplyCamel
SpecNaming == NamingInit /\ [][NamingNext]_vars

\* read_schema, called up to MaxCalls times on one reader: __init__ leaves conn
\* and cursor None
ReaderInit ==
    /\ text = <<>> /\ acc = <<>> /\ applied = <<>>
    /\ db \in Catalogs /\ rpc = "idle"
    /\ self_conn = 0 /\ self_cursor = 0
    /\ open_conns = {} /\ open_cursors = {}
    /\ n_conns = 0 /\ n_cursors = 0
    /\ tables = <<>> /\ tidx = 0
    /\ columns = <<>> /\ primary_keys = <<>> /\ foreign_keys = <<>>
    /\ schema_data = <<>> /\ exc = FALSE
    /\ result = <<>> /\ outcome = "none"
    /\ calls = 0 /\ queries = <<>>
    /\ schema = <<>> /\ connection_string = <<>> /\ progress_callback = FALSE
    /\ table_groups = <<>>
    /\ files = <<>> /\ gidx = 0 /\ gpc = "idle"
    /\ progress = <<>> /\ steps = <<>>
    /\ gen_result = <<>>
    /\ ref = None
    /\ table = None /\ table_data = <<>>
    /\ pg_type = <<>> /\ nullable = FALSE
    /\ mapped = [csharp |-> <<>>, python |-> <<>>, sqlalchemy |-> <<>>]
    /\ dsn = <<>> /\ target = <<>> /\ normalized = <<>>
    /\ ui_schema = <<>> /\ session_table_groups = <<>>
    /\ selected_tables = <<>> /\ all_groups = <<>>

ReaderNext ==
    \/ ReadSchemaCall
    \/ Connect
    \/ GetTablesStep
    \/ GetColumnsStep
    \/ GetPrimaryKeysStep
    \/ GetForeignKeysStep
    \/ Finally
SpecReader == ReaderInit /\ [][ReaderNext]_vars

\* generate_application, run again and again on one generator
GenInit ==
    /\ text = <<>> /\ acc = <<>> /\ applied = <<>>
    /\ db = <<>> /\ rpc = "idle"
    /\ self_conn = 0 /\ self_cursor = 0
    /\ open_conns = {} /\ open_cursors = {}
    /\ n_conns = 0 /\ n_cursors = 0
    /\ tables = <<>> /\ tidx = 0
    /\ columns = <<>> /\ primary_keys = <<>> /\ foreign_keys = <<>>
    /\ schema_data = <<>> /\ exc = FALSE
    /\ result = <<>> /\ outcome = "none"
    /\ calls = 0 /\ queries = <<>>
    /\ schema = <<>> /\ connection_string = <<>> /\ progress_callback = FALSE
    /\ table_groups = <<>>
    /\ files = <<>> /\ gidx = 0 /\ gpc = "idle"
    /\ progress = <<>> /\ steps = <<>>
    /\ gen_result = <<>>
    /\ ref = None
    /\ table = None /\ table_data = <<>>
    /\ pg_type = <<>> /\ nullable = FALSE
    /\ mapped = [csharp |-> <<>>, python |-> <<>>, sqlalchemy |-> <<>>]
    /\ dsn = <<>> /\ target = <<>> /\ normalized = <<>>
    /\ ui_schema = <<>> /\ session_table_groups = <<>>
    /\ selected_tables = <<>> /\ all_groups = <<>>

GenNext ==
    \/ GenStart
    \/ GenTable
    \/ GenCheckpoint
    \/ GenSchemaWide
    \/ GenComplete
    \/ GenDismiss
SpecGen == GenInit /\ [][GenNext]_vars

\* generate_application as app.py calls it, once, with the user's table groups
AppNext ==
    \/ AppGenerate
    \/ GenTable
    \/ GenCheckpoint
    \/ GenSchemaWide
    \/ GenComplete
SpecApp == GenInit /\ [][AppNext]_vars

\* generate_application called once, where every view-building and rendering
\* call may raise
RaisingNext ==
    \/ GenStart
    \/ GenTable
    \/ GenCheckpoint
    \/ GenSchemaWide
    \/ GenComplete
    \/ GenRaise
SpecRaising == GenInit /\ [][RaisingNext]_vars

\* _prepare_table_data on one table the reader can produce
ViewInit ==
    /\ text = <<>> /\ acc = <<>> /\ applied = <<>>
    /\ db = <<>> /\ rpc = "idle"
    /\ self_conn = 0 /\ self_cursor = 0
    /\ open_conns = {} /\ open_cursors = {}
    /\ n_conns = 0 /\ n_cursors = 0
    /\ tables = <<>> /\ tidx = 0
    /\ columns = <<>> /\ primary_keys = <<>> /\ foreign_keys = <<>>
    /\ schema_data = <<>> /\ exc = FALSE
    /\ result = <<>> /\ outcome = "none"
    /\ calls = 0 /\ queries = <<>>
    /\ schema = <<>> /\ connection_string = <<>> /\ progress_callback = FALSE
    /\ table_groups = <<>>
    /\ files = <<>> /\ gidx = 0 /\ gpc = "idle"
    /\ progress = <<>> /\ steps = <<>>
    /\ gen_result = <<>>
    /\ ref = None
    /\ table \in {TableOf(e) : e \in ViewCatalogEntries}
    /\ table_data = <<>>
    /\ pg_type = <<>> /\ nullable = FALSE
    /\ mapped = [csharp |-> <<>>, python |-> <<>>, sqlalchemy |-> <<>>]
    /\ dsn = <<>> /\ target = <<>> /\ normalized = <<>>
    /\ ui_schema = <<>> /\ session_table_groups = <<>>
    /\ selected_tables = <<>> /\ all_groups = <<>>

ViewNext == PrepareTableData
SpecView == ViewInit /\ [][ViewNext]_vars

\* the three type mappers, each called once on one type string
TypeInit ==
    /\ text = <<>> /\ acc = <<>> /\ applied = <<>>
    /\ db = <<>> /\ rpc = "idle"
    /\ self_conn = 0 /\ self_cursor = 0
    /\ open_conns = {} /\ open_cursors = {}
    /\ n_conns = 0 /\ n_cursors = 0
    /\ tables = <<>> /\ tidx = 0
    /\ columns = <<>> /\ primary_keys = <<>> /\ foreign_keys = <<>>
    /\ schema_data = <<>> /\ exc = FALSE
    /\ result = <<>> /\ outcome = "none"
    /\ calls = 0 /\ queries = <<>>
    /\ schema = <<>> /\ connection_string = <<>> /\ progress_callback = FALSE
    /\ table_groups = <<>>
    /\ files = <<>> /\ gidx = 0 /\ gpc = "idle"
    /\ progress = <<>> /\ steps = <<>>
    /\ gen_result = <<>>
    /\ ref = None
    /\ table = None /\ table_data = <<>>
    /\ pg_type \in TypeStrings /\ nullable \in BOOLEAN
    /\ mapped = [csharp |-> <<>>, python |-> <<>>, sqlalchemy |-> <<>>]
    /\ dsn = <<>> /\ target = <<>> /\ normalized = <<>>
    /\ ui_schema = <<>> /\ session_table_groups = <<>>
    /\ selected_tables = <<>> /\ all_groups = <<>>

TypeNext == MapToCSharp \/ MapToPython \/ MapToSqlalchemy
SpecType == TypeInit /\ [][TypeNext]_vars

\* normalize_connection_string, called up to MaxNormalize times in a row
ConnInit ==
    /\ text = <<>> /\ acc = <<>> /\ applied = <<>>
    /\ db = <<>> /\ rpc = "idle"
    /\ self_conn = 0 /\ self_cursor = 0
    /\ open_conns = {} /\ open_cursors = {}
    /\ n_conns = 0 /\ n_cursors = 0
    /\ tables = <<>> /\ tidx = 0
    /\ columns = <<>> /\ primary_keys = <<>> /\ foreign_keys = <<>>
    /\ schema_data = <<>> /\ exc = FALSE
    /\ result = <<>> /\ outcome = "none"
    /\ calls = 0 /\ queries = <<>>
    /\ schema = <<>> /\ connection_string = <<>> /\ progress_callback = FALSE
    /\ table_groups = <<>>
    /\ files = <<>> /\ gidx = 0 /\ gpc = "idle"
    /\ progress = <<>> /\ steps = <<>>
    /\ gen_result = <<>>
    /\ ref = None
    /\ table = None /\ table_data = <<>>
    /\ pg_type = <<>> /\ nullable = FALSE
    /\ mapped = [csharp |-> <<>>, python |-> <<>>, sqlalchemy |-> <<>>]
    /\ dsn \in ConnectionInputs /\ target \in TargetFrameworks
    /\ normalized = <<>>
    /\ ui_schema = <<>> /\ session_table_groups = <<>>
    /\ selected_tables = <<>> /\ all_groups = <<>>

ConnNext == Normalize
SpecConn == ConnInit /\ [][ConnNext]_vars

UiInit ==
    /\ text = <<>> /\ acc = <<>> /\ applied = <<>>
    /\ db = <<>> /\ rpc = "idle"
    /\ self_conn = 0 /\ self_cursor = 0
    /\ open_conns = {} /\ open_cursors = {}
    /\ n_conns = 0 /\ n_cursors = 0
    /\ tables = <<>> /\ tidx = 0
    /\ columns = <<>> /\ primary_keys = <<>> /\ foreign_keys = <<>>
    /\ schema_data = <<>> /\ exc = FALSE
    /\ result = <<>> /\ outcome = "none"
    /\ calls = 0 /\ queries = <<>>
    /\ schema = <<>> /\ connection_string = <<>> /\ progress_callback = FALSE
    /\ table_groups = <<>>
    /\ files = <<>> /\ gidx = 0 /\ gpc = "idle"
    /\ progress = <<>> /\ steps = <<>>
    /\ gen_result = <<>>
    /\ ref = None
    /\ table = None /\ table_data = <<>>
    /\ pg_type = <<>> /\ nullable = FALSE
    /\ mapped = [csharp |-> <<>>, python |-> <<>>, sqlalchemy |-> <<>>]
    /\ dsn = <<>> /\ target = <<>> /\ normalized = <<>>
    /\ ui_schema \in Schemas /\ session_table_groups = <<>>
    /\ selected_tables = <<>> /\ all_groups = <<>>

UiNext ==
    \/ ToggleTable
    \/ SelectAllUngrouped
    \/ ClearSelection
    \/ AssignToExisting
    \/ CreateGroupAndAssign
    \/ RemoveGroup
    \/ PrepareGroups
SpecUi == UiInit /\ [][UiNext]_vars

====
